---- MODULE Spec2Model ----
(***************************************************************************)
(* docweaver: the structured edit applier of make_changes                   *)
(* (src/src/docweaver/pipeline.py) and the document catalog                 *)
(* (src/src/docweaver/catalog.py).                                          *)
(*                                                                          *)
(* Text is modelled character by character: a str (and a bytes value) is a  *)
(* sequence of one-character strings, so that split, strip, join and        *)
(* decode are computed, not assumed.                                        *)
(***************************************************************************)
EXTENDS Integers, Sequences, FiniteSets, TLC

(***************************************************************************)
(* Bounds of the model.                                                     *)
(***************************************************************************)
\* longest document (in lines) drawn as input of the single-file pass
MaxLines == 3

\* most instruction bundles of one make_changes run
MaxBundles == 2

\* the text of line i of an input document is the i-th symbol
LineSyms == <<"a", "b", "c", "d", "e", "f">>

(***************************************************************************)
(* Python str operations used by the edit applier.                          *)
(***************************************************************************)
\* characters str.splitlines() breaks a line at ("\r\n" counts as one break)
LineBreaks == {"\n", "\r"}

\* characters str.rstrip() removes
Whitespace == {" ", "\t", "\n", "\r"}

Min(a, b) == IF a < b THEN a ELSE b

Max(a, b) == IF a > b THEN a ELSE b

RECURSIVE SplitFrom(_, _, _, _)
SplitFrom(s, i, cur, acc) ==
    IF i > Len(s)
    THEN IF cur = <<>> THEN acc ELSE Append(acc, cur)
    ELSE IF s[i] = "\r" /\ i < Len(s) /\ s[i + 1] = "\n"
    THEN SplitFrom(s, i + 2, <<>>, Append(acc, cur))
    ELSE IF s[i] \in LineBreaks
    THEN SplitFrom(s, i + 1, <<>>, Append(acc, cur))
    ELSE SplitFrom(s, i + 1, Append(cur, s[i]), acc)

\* s.splitlines(): the lines of s without their line breaks; a final line
\* break ends the last line and opens no new one
SplitLines(s) == SplitFrom(s, 1, <<>>, <<>>)

RECURSIVE JoinLines(_)
\* "\n".join(ls)
JoinLines(ls) ==
    IF ls = <<>> THEN <<>>
    ELSE IF Len(ls) = 1 THEN ls[1]
    ELSE ls[1] \o <<"\n">> \o JoinLines(Tail(ls))

RECURSIVE RStrip(_)
\* line.rstrip()
RStrip(line) ==
    IF line # <<>> /\ line[Len(line)] \in Whitespace
    THEN RStrip(SubSeq(line, 1, Len(line) - 1))
    ELSE line

\* mutant: the lines are joined as the loop left them
CleanedLinesOmitted(ls) == ls

\* [line.rstrip() for line in lines]
CleanedLines(ls) == [i \in 1..Len(ls) |-> RStrip(ls[i])]

\* a Python slice bound: negative counts from the end, then clamped to 0..n
SliceBound(x, n) == IF x < 0 THEN Max(x + n, 0) ELSE Min(x, n)

\* l[i:j] = r
SliceAssign(l, i, j, r) ==
    LET lo == SliceBound(i, Len(l))
        hi == Max(SliceBound(j, Len(l)), lo)
    IN  SubSeq(l, 1, lo) \o r \o SubSeq(l, hi + 1, Len(l))

RECURSIVE InsertDesc(_, _)
\* e placed behind every element whose start_line is >= its own
InsertDesc(sorted, e) ==
    IF sorted = <<>> THEN <<e>>
    ELSE IF Head(sorted).start_line >= e.start_line
    THEN <<Head(sorted)>> \o InsertDesc(Tail(sorted), e)
    ELSE <<e>> \o sorted

\* mutant: the list is left in the agent's order
SortEditsOmitted(es) == es

RECURSIVE SortEdits(_)
\* edits.sort(key=lambda e: e["start_line"], reverse=True): descending and
\* stable (equal keys keep their order)
SortEdits(es) ==
    IF es = <<>> THEN <<>>
    ELSE InsertDesc(SortEdits(SubSeq(es, 1, Len(es) - 1)), es[Len(es)])

(***************************************************************************)
(* One edit (agents.py DocEdit; comment and justification are only logged). *)
(***************************************************************************)
EditTypes == {"add_new", "update_outdated", "enhance", "delete_redundant"}

\* mutant: only add_new selects insertion semantics
is_insertion_add_only(edit) == edit.edit_type = "add_new"

is_insertion(edit) == edit.edit_type \in {"add_new", "enhance"}

\* mutant: the slice starts one line above start_line
start_idx_early(edit) == edit.start_line - 2

\* start_idx = start_line - 1
start_idx(edit) == edit.start_line - 1

\* mutant: the inclusive end_line taken as an index, one line short
end_idx_short(edit) ==
    IF is_insertion(edit) THEN start_idx(edit) ELSE edit.end_line - 1

end_idx(edit) == IF is_insertion(edit) THEN start_idx(edit) ELSE edit.end_line

\* the "Handle invalid line numbers" test: the edit is skipped
InvalidLineNumbers(ls, edit) ==
    \/ start_idx(edit) < 0
    \/ start_idx(edit) > Len(ls)
    \/ end_idx(edit) < start_idx(edit)
    \/ end_idx(edit) > Len(ls)

\* mutant: no test of the line numbers before the slice assignment
ApplyEditUnchecked(ls, edit) ==
    SliceAssign(ls, start_idx(edit), end_idx(edit),
                SplitLines(edit.replacement_txt))

\* the body of "for edit in edits" on the working line list
ApplyEdit(ls, edit) ==
    IF InvalidLineNumbers(ls, edit) THEN ls
    ELSE SliceAssign(ls, start_idx(edit), end_idx(edit),
                     SplitLines(edit.replacement_txt))

RECURSIVE ApplyEdits(_, _)
\* the whole "for edit in edits" loop
ApplyEdits(ls, es) ==
    IF es = <<>> THEN ls ELSE ApplyEdits(ApplyEdit(ls, Head(es)), Tail(es))

\* one file of the "Apply edits to all files" loop: split, sort, apply, clean,
\* join
ApplyFileEdits(content, es) ==
    JoinLines(CleanedLines(ApplyEdits(SplitLines(content), SortEdits(es))))

(***************************************************************************)
(* State.                                                                   *)
(***************************************************************************)
VARIABLES
    \* one file's pass of the edit loop (locals of make_changes)
    content_to_edit,   \* revised_contents.get(path) when the pass starts
    agent_edits,       \* edits_by_file[path] as the agent listed them
    edits,             \* the same list once sorted in place
    lines,             \* the working line list
    pos,               \* 1-based position of the loop in edits
    skipped,           \* per edit taken so far: did it hit the "Skipping" branch
    pass_pc,           \* "start", "loop", "done", or "idle"
    pass_result,       \* what the pass writes to revised_contents[path]
    round,             \* 1, or 2 when a later bundle repeats the same edits
    first_result       \* in round 2: what round 1 wrote

VARIABLES
    \* one run of make_changes
    disk,               \* the files on disk: path -> text
    doc_instructions,   \* the instruction bundles read from instructions_path
    pc,                 \* "start", "bundle", "await", "done", or "idle"
    bundle_no,          \* 1-based position of the bundle loop
    original_contents,  \* canonical path -> content as loaded
    revised_contents,   \* canonical path -> current content
    all_raw_edits,      \* the DocOutputs of every bundle that got an answer
    prompt_docs,        \* canonical path -> numbered lines put in the prompt
    bundle_log,         \* per finished bundle: the agent's answer (or
                        \* failure) and the state the bundle left behind
    result              \* what make_changes returns

VARIABLES
    \* the document catalog and update_catalog
    fs,                 \* the files under the base path: path -> bytes
    catalog_file,       \* the saved snapshot: path -> DocMetadata
    catalog,            \* the DocCatalog in memory: path -> DocMetadata
    uc_pc,              \* "ready", "loop", "returned", or "idle"
    docs_to_update,     \* what get_docs_to_update returned
    all_docs_to_update, \* the same, listed and cut to limit
    doc_i,              \* documents the metadata loop has taken
    processed_bytes,    \* path -> the bytes generate_metadata read for the
                        \* entry now in the catalog
    docs_to_remove,     \* the catalogued paths found to have no file
    agent_failed,       \* the documents of this run whose summarizer call
                        \* raised
    removed_count       \* what update_catalog reports as removed_docs

passVars == <<content_to_edit, agent_edits, edits, lines, pos, skipped,
              pass_pc, pass_result, round, first_result>>

runVars == <<disk, doc_instructions, pc, bundle_no, original_contents,
             revised_contents, all_raw_edits, prompt_docs, bundle_log, result>>

catVars == <<fs, catalog_file, catalog, uc_pc, docs_to_update,
             all_docs_to_update, doc_i, processed_bytes, docs_to_remove,
             agent_failed, removed_count>>

VARIABLES
    \* DocCatalog.save and DocCatalog.load on the snapshot file
    snapshot,           \* the file at the catalog path: does it exist, its text
    save_pc,            \* "ready", "open", "closed", "stopped", "loaded",
                        \* or "idle"
    self_docs,          \* self.docs of the catalog being saved, in dict order
    saved_before,       \* the snapshot file as the save before left it
    json_text,          \* what model_dump_json(indent=2) returned
    flushed,            \* characters of json_text that reached the file
    load_result         \* what DocCatalog.load returned

snapVars == <<snapshot, save_pc, self_docs, saved_before, json_text, flushed,
              load_result>>

VARIABLES
    \* one run of the pipeline for a task (cli.py run_task_async) and its
    \* last stage, create_pr
    out_files,          \* the stage output files: name -> exists, text
    task_pc,            \* the stage the run is at, then the step of
                        \* create_pr; "done", "raised", or "idle"
    calls,              \* the pipeline operations executed, in order
    stage_log,          \* per stage reached: was its file there, its result
    doc_files,          \* the documentation files on disk: path -> text
    head_files,         \* the same files as committed on the original branch
    github_token,       \* is GITHUB_TOKEN set
    proposed_changes,   \* create_pr: the changes read from changes_path
    written,            \* the documentation files the run has written
    pr_failed           \* create_pr: an exception is on its way out

taskVars == <<out_files, task_pc, calls, stage_log, doc_files, head_files,
              github_token, proposed_changes, written, pr_failed>>

VARIABLES
    \* one call of parse_doc_refs (agents.py 217-255)
    ref_files,          \* the files under docs/: name -> the import targets
                        \* its text holds, in order
    ref_pc,             \* "start", "loop", "done", or "idle"
    file_path,          \* the document to parse
    include_code_body,  \* the parameter of that name
    matches,            \* what re.findall returned
    match_i,            \* matches the loop has taken
    referenced_docs,    \* the list the loop builds
    parsed              \* the WeaviateDoc returned

refVars == <<ref_files, ref_pc, file_path, include_code_body, matches,
             match_i, referenced_docs, parsed>>

VARIABLES
    \* create_diff and the loop of main that calls it (5_create_diffs.py)
    old_content,        \* the text of the file on disk
    new_content,        \* the revised text, change["revised_doc"]
    diff,               \* what create_diff returned
    all_diffs,          \* the combined diff
    diff_pc             \* "ready", "done", or "idle"

diffVars == <<old_content, new_content, diff, all_diffs, diff_pc>>

\* the state of the operations other than the edit applier, make_changes and
\* update_catalog
laterVars == <<snapVars, taskVars, refVars, diffVars>>

\* all but the snapshot file
snapOthers == <<passVars, runVars, catVars, taskVars, refVars, diffVars>>

\* all but the pipeline run
taskOthers == <<passVars, runVars, catVars, snapVars, refVars, diffVars>>

\* all but parse_doc_refs
refOthers == <<passVars, runVars, catVars, snapVars, taskVars, diffVars>>

\* all but create_diff
diffOthers == <<passVars, runVars, catVars, snapVars, taskVars, refVars>>

vars == <<passVars, runVars, catVars, laterVars>>

\* the function with no argument (an empty dict)
EmptyMap == [x \in {} |-> x]

\* the ways to list the set S without repetition
Listings(S) ==
    {q \in [1..Cardinality(S) -> S] : \A i, j \in DOMAIN q : i # j => q[i] # q[j]}

\* no run of make_changes is under way
RunIdle ==
    /\ disk = EmptyMap
    /\ doc_instructions = <<>>
    /\ pc = "idle"
    /\ bundle_no = 0
    /\ original_contents = EmptyMap
    /\ revised_contents = EmptyMap
    /\ all_raw_edits = <<>>
    /\ prompt_docs = EmptyMap
    /\ bundle_log = <<>>
    /\ result = EmptyMap

\* no catalog is in use
CatIdle ==
    /\ fs = EmptyMap
    /\ catalog_file = EmptyMap
    /\ catalog = EmptyMap
    /\ uc_pc = "idle"
    /\ docs_to_update = {}
    /\ all_docs_to_update = <<>>
    /\ doc_i = 0
    /\ processed_bytes = EmptyMap
    /\ docs_to_remove = {}
    /\ agent_failed = {}
    /\ removed_count = 0

\* no catalog is being saved or loaded
SnapIdle ==
    /\ snapshot = [exists |-> FALSE, text |-> <<>>]
    /\ save_pc = "idle"
    /\ self_docs = <<>>
    /\ saved_before = [exists |-> FALSE, text |-> <<>>]
    /\ json_text = <<>>
    /\ flushed = 0
    /\ load_result = [ok |-> FALSE, docs |-> <<>>]

\* no pipeline run is under way
TaskIdle ==
    /\ out_files = EmptyMap
    /\ task_pc = "idle"
    /\ calls = <<>>
    /\ stage_log = <<>>
    /\ doc_files = EmptyMap
    /\ head_files = EmptyMap
    /\ github_token = FALSE
    /\ proposed_changes = <<>>
    /\ written = {}
    /\ pr_failed = FALSE

\* no document is being parsed
RefIdle ==
    /\ ref_files = EmptyMap
    /\ ref_pc = "idle"
    /\ file_path = <<>>
    /\ include_code_body = FALSE
    /\ matches = <<>>
    /\ match_i = 0
    /\ referenced_docs = <<>>
    /\ parsed = EmptyMap

\* no diff is being made
DiffIdle ==
    /\ old_content = <<>>
    /\ new_content = <<>>
    /\ diff = <<>>
    /\ all_diffs = <<>>
    /\ diff_pc = "idle"

LaterIdle == SnapIdle /\ TaskIdle /\ RefIdle /\ DiffIdle

\* no single-file pass is under way
PassIdle ==
    /\ content_to_edit = <<>>
    /\ agent_edits = <<>>
    /\ edits = <<>>
    /\ lines = <<>>
    /\ pos = 0
    /\ skipped = <<>>
    /\ pass_pc = "idle"
    /\ pass_result = <<>>
    /\ round = 0
    /\ first_result = <<>>

(***************************************************************************)
(* Inputs of the single-file pass.                                          *)
(***************************************************************************)
\* line i of an input document: its symbol, followed by a blank when
\* i \in ws, or nothing but a blank when i \in bl
DocLine(i, ws, bl) ==
    IF i \in bl THEN <<" ">>
    ELSE IF i \in ws THEN <<LineSyms[i], " ">> ELSE <<LineSyms[i]>>

\* the document of n lines, ending in a line break when nl
MkDoc(n, ws, bl, nl) ==
    JoinLines([i \in 1..n |-> DocLine(i, ws, bl)])
        \o (IF nl THEN <<"\n">> ELSE <<>>)

\* at most one line is special: it carries trailing whitespace or is blank
SpecialLines ==
    {<<{}, {}>>} \cup {<<{i}, {}>> : i \in 1..MaxLines}
                 \cup {<<{}, {i}>> : i \in 1..MaxLines}

PassDocs ==
    {MkDoc(n, sp[1], sp[2], nl) :
        n \in 0..MaxLines, sp \in SpecialLines, nl \in BOOLEAN}

\* replacement texts: nothing, one line, two lines (the first with trailing
\* whitespace), one empty line
ReplTexts == {<<>>, <<"x">>, <<"y", " ", "\n", "z">>, <<"\n">>}

\* a lone edit: every type, line numbers from 0 to past the end
PassEdits ==
    [edit_type : EditTypes, start_line : 0..(MaxLines + 2),
     end_line : 0..(MaxLines + 2), replacement_txt : ReplTexts]

\* edits that come in pairs: line numbers from 1, and end_line = start_line
\* for an insertion (the loop never reads an insertion's end_line)
PairEdits ==
    {e \in [edit_type : {"add_new", "update_outdated"},
            start_line : 1..(MaxLines + 2), end_line : 1..(MaxLines + 1),
            replacement_txt : {<<>>, <<"x">>, <<"y", " ", "\n", "z">>}] :
        is_insertion(e) => e.end_line = Min(e.start_line, MaxLines + 1)}

PassEditLists ==
    {<<>>} \cup {<<e>> : e \in PassEdits}
           \cup {<<e1, e2>> : e1 \in PairEdits, e2 \in PairEdits}

(***************************************************************************)
(* The single-file pass, one action per step of pipeline.py 503-558.        *)
(***************************************************************************)
PassInit ==
    /\ content_to_edit \in PassDocs
    /\ agent_edits \in PassEditLists
    /\ edits = agent_edits
    /\ lines = <<>>
    /\ pos = 0
    /\ skipped = <<>>
    /\ pass_pc = "start"
    /\ pass_result = <<>>
    /\ round = 1
    /\ first_result = <<>>
    /\ RunIdle
    /\ CatIdle
    /\ LaterIdle

\* lines = content_to_edit.splitlines(); edits.sort(...)
PassBegin ==
    /\ pass_pc = "start"
    /\ lines' = SplitLines(content_to_edit)
    /\ edits' = SortEdits(edits)
    /\ pos' = 1
    /\ pass_pc' = "loop"
    /\ UNCHANGED <<content_to_edit, agent_edits, skipped, pass_result, round,
                   first_result>>
    /\ UNCHANGED <<runVars, catVars, laterVars>>

\* one iteration of "for edit in edits"
PassEdit ==
    /\ pass_pc = "loop"
    /\ pos <= Len(edits)
    /\ lines' = ApplyEdit(lines, edits[pos])
    /\ skipped' = Append(skipped, InvalidLineNumbers(lines, edits[pos]))
    /\ pos' = pos + 1
    /\ UNCHANGED <<content_to_edit, agent_edits, edits, pass_pc, pass_result,
                   round, first_result>>
    /\ UNCHANGED <<runVars, catVars, laterVars>>

\* cleaned_lines = [...]; revised_contents[path] = "\n".join(cleaned_lines)
PassEnd ==
    /\ pass_pc = "loop"
    /\ pos > Len(edits)
    /\ pass_result' = JoinLines(CleanedLines(lines))
    /\ pass_pc' = "done"
    /\ UNCHANGED <<content_to_edit, agent_edits, edits, lines, pos, skipped,
                   round, first_result>>
    /\ UNCHANGED <<runVars, catVars, laterVars>>

PassNext == PassBegin \/ PassEdit \/ PassEnd

SpecPass == PassInit /\ [][PassNext]_vars

(***************************************************************************)
(* The pass run twice: a later bundle whose agent output lists the same     *)
(* edits for the path finds the content the earlier bundle wrote back       *)
(* (pipeline.py 503: revised_contents.get(path)).                           *)
(***************************************************************************)
\* edits that come in pairs in the repeated pass: replacements within the
\* first two lines
ReapplyPairEdits ==
    {e \in [edit_type : {"update_outdated"},
            start_line : 1..2, end_line : 1..2,
            replacement_txt : {<<"x">>, <<"y", " ", "\n", "z">>, <<"\n">>}] :
        e.start_line <= e.end_line}

ReapplyEditLists ==
    {<<>>} \cup {<<e>> : e \in PassEdits}
           \cup {<<e1, e2>> : e1 \in ReapplyPairEdits, e2 \in ReapplyPairEdits}

ReapplyInit ==
    /\ content_to_edit \in PassDocs
    /\ agent_edits \in ReapplyEditLists
    /\ edits = agent_edits
    /\ lines = <<>>
    /\ pos = 0
    /\ skipped = <<>>
    /\ pass_pc = "start"
    /\ pass_result = <<>>
    /\ round = 1
    /\ first_result = <<>>
    /\ RunIdle
    /\ CatIdle
    /\ LaterIdle

\* the next bundle reaches the same path with the same edits
PassAgain ==
    /\ pass_pc = "done"
    /\ round = 1
    /\ round' = 2
    /\ first_result' = pass_result
    /\ content_to_edit' = pass_result
    /\ edits' = agent_edits
    /\ lines' = <<>>
    /\ pos' = 0
    /\ skipped' = <<>>
    /\ pass_pc' = "start"
    /\ UNCHANGED <<agent_edits, pass_result>>
    /\ UNCHANGED <<runVars, catVars, laterVars>>

ReapplyNext == PassBegin \/ PassEdit \/ PassEnd \/ PassAgain

SpecReapply == ReapplyInit /\ [][ReapplyNext]_vars

(***************************************************************************)
(* make_changes (pipeline.py 323-594).  A path is the sequence of its       *)
(* components.                                                              *)
(***************************************************************************)
PathA == <<"a.md">>

PathB == <<"b.md">>

\* Path("docs") / path_str
DocsPrefixed(path_str) == <<"docs">> \o path_str

\* the file contents of the runs: a.md is at the root, b.md (if there is
\* one) only under docs/ and ends in a line feed
RunDisks ==
    {(PathA :> ca) : ca \in {<<"a", "\n", "b">>, <<"a", " ", "\n", "b", "\n">>}}
    \cup {(PathA :> ca) @@ (DocsPrefixed(PathB) :> <<"c", "\n">>) :
            ca \in {<<"a", "\n", "b">>, <<"a", " ", "\n", "b", "\n">>}}

\* the bundles of doc_instructions: primary_path and the paths of its
\* file_instructions (their instructions text only goes into the prompt)
BundleShapes ==
    {[primary_path |-> PathA, file_instructions |-> <<PathA, PathB>>],
     [primary_path |-> PathB, file_instructions |-> <<PathB>>]}

RunInstructions ==
    UNION {[1..n -> BundleShapes] : n \in 1..MaxBundles}

\* the edits the writer agent picks from in a run
RunIns == [edit_type |-> "add_new", start_line |-> 1, end_line |-> 1,
           replacement_txt |-> <<"x">>]

RunDel == [edit_type |-> "delete_redundant", start_line |-> 1, end_line |-> 1,
           replacement_txt |-> <<>>]

RunUpd == [edit_type |-> "update_outdated", start_line |-> 2, end_line |-> 2,
           replacement_txt |-> <<"y", " ", "\n", "z">>]

RunBad == [edit_type |-> "enhance", start_line |-> 9, end_line |-> 9,
           replacement_txt |-> <<"x">>]

RunEditLists == {<<>>, <<RunIns>>, <<RunDel>>, <<RunUpd, RunBad>>}

\* the paths the agent names: the canonical ones of the prompt
AgentPaths == {PathA, DocsPrefixed(PathB)}

\* referenced_file_edits, as the items of the dict in order
RunRefEdits ==
    {<<>>, <<<<PathA, <<RunIns>>>>>>, <<<<DocsPrefixed(PathB), <<>>>>>>}

\* response.output: a list of DocOutput (here of one)
AgentOutputs ==
    {<<o>> : o \in [path : AgentPaths, edits : RunEditLists,
                    referenced_file_edits : RunRefEdits]}

\* path.is_file()
IsFile(path) == path \in DOMAIN disk

\* the key under which a path of the instructions is loaded, or <<>> when
\* neither it nor its docs/ form is a file
LoadKey(path_str) ==
    IF IsFile(path_str) THEN path_str
    ELSE IF IsFile(DocsPrefixed(path_str)) THEN DocsPrefixed(path_str)
    ELSE <<>>

\* all_paths: every primary_path and every path of a file instruction
AllPaths(instructions) ==
    UNION {{instructions[i].primary_path}
           \cup {instructions[i].file_instructions[j] :
                   j \in 1..Len(instructions[i].file_instructions)} :
           i \in 1..Len(instructions)}

\* original_contents as loaded from disk
LoadContents(instructions) ==
    LET keys == {LoadKey(ps) : ps \in AllPaths(instructions)} \ {<<>>}
    IN  [key \in keys |-> disk[key]]

\* canonical_path of a bundle path, or <<>> ("skipping from bundle")
CanonicalPath(path_str) ==
    IF path_str \in DOMAIN revised_contents THEN path_str
    ELSE IF DocsPrefixed(path_str) \in DOMAIN revised_contents
    THEN DocsPrefixed(path_str)
    ELSE <<>>

\* numbered_content: line i is shown as "i|line"
Numbered(content) ==
    LET ls == SplitLines(content) IN [i \in 1..Len(ls) |-> <<i, ls[i]>>]

\* mutant: the edits of a bundle are applied to the content as loaded
ContentToEditOriginal(path) == original_contents[path]

\* content_to_edit = revised_contents.get(path)
ContentToEdit(path) == revised_contents[path]

\* content = revised_contents[canonical_path]
BundleContent(canonical_path) == revised_contents[canonical_path]

RECURSIVE ItemsFor(_, _)
\* the edits a referenced_file_edits dict holds for path
ItemsFor(items, path) ==
    IF items = <<>> THEN <<>>
    ELSE (IF Head(items)[1] = path THEN Head(items)[2] ELSE <<>>)
         \o ItemsFor(Tail(items), path)

RECURSIVE EditsByFile(_, _)
\* edits_by_file[path] after grouping the agent's output
EditsByFile(outputs, path) ==
    IF outputs = <<>> THEN <<>>
    ELSE (IF Head(outputs).path = path THEN Head(outputs).edits ELSE <<>>)
         \o ItemsFor(Head(outputs).referenced_file_edits, path)
         \o EditsByFile(Tail(outputs), path)

\* the keys of edits_by_file: a path with a non-empty edits list, and every
\* key of a referenced_file_edits dict (also one with an empty list)
EditedPaths(outputs) ==
    UNION {(IF outputs[i].edits # <<>> THEN {outputs[i].path} ELSE {})
           \cup {outputs[i].referenced_file_edits[j][1] :
                   j \in 1..Len(outputs[i].referenced_file_edits)} :
           i \in 1..Len(outputs)}

\* revised_contents after "Apply edits to all files": a path the agent names
\* that is no key is skipped
ApplyBundleEdits(outputs) ==
    [path \in DOMAIN revised_contents |->
        IF path \in EditedPaths(outputs)
        THEN ApplyFileEdits(ContentToEdit(path), EditsByFile(outputs, path))
        ELSE revised_contents[path]]

\* mutant: a failed agent call ends the bundle loop
BundleAfterFailureAbort(n) == Len(doc_instructions) + 1

\* "continue  # Skip to the next bundle"
BundleAfterFailure(n) == n + 1

\* mutant: every loaded file is reported
ChangedPathsAll == DOMAIN revised_contents

\* the paths whose content differs from original_contents.get(path)
ChangedPaths ==
    {path \in DOMAIN revised_contents :
        \/ path \notin DOMAIN original_contents
        \/ original_contents[path] # revised_contents[path]}

RunInit ==
    /\ disk \in RunDisks
    /\ doc_instructions \in RunInstructions
    /\ pc = "start"
    /\ bundle_no = 0
    /\ original_contents = EmptyMap
    /\ revised_contents = EmptyMap
    /\ all_raw_edits = <<>>
    /\ prompt_docs = EmptyMap
    /\ bundle_log = <<>>
    /\ result = EmptyMap
    /\ PassIdle
    /\ CatIdle
    /\ LaterIdle

\* pipeline.py 351-376: load every named file, copy to revised_contents
Load ==
    /\ pc = "start"
    /\ original_contents' = LoadContents(doc_instructions)
    /\ revised_contents' = LoadContents(doc_instructions)
    /\ all_raw_edits' = <<>>
    /\ bundle_no' = 1
    /\ pc' = "bundle"
    /\ UNCHANGED <<disk, doc_instructions, prompt_docs, bundle_log, result>>
    /\ UNCHANGED <<passVars, catVars, laterVars>>

\* pipeline.py 378-444: build the prompt of the next bundle and call the agent
BuildPrompt ==
    /\ pc = "bundle"
    /\ bundle_no <= Len(doc_instructions)
    /\ LET b == doc_instructions[bundle_no]
           bundle_paths == {b.primary_path}
                           \cup {b.file_instructions[j] :
                                   j \in 1..Len(b.file_instructions)}
           found == {CanonicalPath(ps) : ps \in bundle_paths} \ {<<>>}
       IN  prompt_docs' = [cp \in found |-> Numbered(BundleContent(cp))]
    /\ pc' = "await"
    /\ UNCHANGED <<disk, doc_instructions, bundle_no, original_contents,
                   revised_contents, all_raw_edits, bundle_log, result>>
    /\ UNCHANGED <<passVars, catVars, laterVars>>

\* pipeline.py 445-447: the agent call raised
AgentFails ==
    /\ pc = "await"
    /\ bundle_log' = Append(bundle_log,
                            [failed |-> TRUE,
                             response |-> <<>>,
                             revised |-> revised_contents,
                             raw_edits |-> all_raw_edits])
    /\ bundle_no' = BundleAfterFailure(bundle_no)
    /\ pc' = "bundle"
    /\ UNCHANGED <<disk, doc_instructions, original_contents, revised_contents,
                   all_raw_edits, prompt_docs, result>>
    /\ UNCHANGED <<passVars, catVars, laterVars>>

\* pipeline.py 449-563: the agent answered; record, group and apply its edits
AgentAnswers ==
    /\ pc = "await"
    /\ \E outputs \in AgentOutputs :
        /\ all_raw_edits' = all_raw_edits \o outputs
        /\ revised_contents' = ApplyBundleEdits(outputs)
        /\ bundle_log' = Append(bundle_log,
                                [failed |-> FALSE,
                                 response |-> outputs,
                                 revised |-> revised_contents',
                                 raw_edits |-> all_raw_edits'])
    /\ bundle_no' = bundle_no + 1
    /\ pc' = "bundle"
    /\ UNCHANGED <<disk, doc_instructions, original_contents, prompt_docs,
                   result>>
    /\ UNCHANGED <<passVars, catVars, laterVars>>

\* pipeline.py 565-594: list the changed documents and return
Finish ==
    /\ pc = "bundle"
    /\ bundle_no > Len(doc_instructions)
    /\ \E order \in Listings(ChangedPaths) :
        LET revised_docs_to_log ==
                [i \in DOMAIN order |->
                    [path |-> order[i],
                     revised_doc |-> revised_contents[order[i]]]]
        IN  result' = [revised_documents |-> revised_docs_to_log,
                       files_changed |-> Len(revised_docs_to_log)]
    /\ pc' = "done"
    /\ UNCHANGED <<disk, doc_instructions, bundle_no, original_contents,
                   revised_contents, all_raw_edits, prompt_docs, bundle_log>>
    /\ UNCHANGED <<passVars, catVars, laterVars>>

Next == Load \/ BuildPrompt \/ AgentFails \/ AgentAnswers \/ Finish

Spec == RunInit /\ [][Next]_vars

(***************************************************************************)
(* The document catalog (catalog.py) and update_catalog (pipeline.py        *)
(* 894-1010).  A path relative to the base path is its directory followed   *)
(* by the file name, the name being a sequence of characters.               *)
(***************************************************************************)
\* documents processed between two incremental saves
SaveEvery == 10

NameAmd == <<"a", ".", "m", "d">>

NameBmdx == <<"b", ".", "m", "d", "x">>

NameUnderscore == <<"_", "c", ".", "m", "d">>

NameTxt == <<"d", ".", "t", "x", "t">>

\* doc_root is docs/ under the base path; misc/ is beside it
DocA == <<"docs", NameAmd>>

DocB == <<"docs", NameBmdx>>

CatPaths ==
    {DocA, DocB, <<"docs", NameUnderscore>>, <<"docs", NameTxt>>,
     <<"misc", NameAmd>>}

\* the marker generate_metadata looks for
TitleKey == <<"t", "i", "t", "l", "e", ":", " ">>

\* a document with a title line: "title: T \nz"
FrontMatterDoc == TitleKey \o <<"T", " ", "\n", "z">>

\* the bytes a file may hold: plain text, text with a CRLF line ending, the
\* same text with LF, a byte that is not valid UTF-8, text with a title line
FileBytes(path) ==
    IF path = DocA
    THEN {<<"x">>, <<"x", "\r", "\n">>, <<"x", "\n">>}
    ELSE IF path = DocB THEN {<<"x">>, <<"xFF">>, FrontMatterDoc}
    ELSE {<<"x">>}

\* values of the limit parameter (0: None)
LimitChoices == {0, 1}

\* p.name
FileName(path) == path[Len(path)]

RECURSIVE GlobMatch(_, _)
\* fnmatch of a name against a pattern whose only wildcard is "*"
GlobMatch(pattern, name) ==
    IF pattern = <<>> THEN name = <<>>
    ELSE IF Head(pattern) = "*"
    THEN \/ GlobMatch(Tail(pattern), name)
         \/ (name # <<>> /\ GlobMatch(pattern, Tail(name)))
    ELSE /\ name # <<>>
         /\ Head(name) = Head(pattern)
         /\ GlobMatch(Tail(pattern), Tail(name))

\* mutant: the underscore test is missing
ScannedDocsWithUnderscore(files) ==
    {path \in DOMAIN files :
        /\ path[1] = "docs"
        /\ GlobMatch(<<"*", ".", "m", "d", "*">>, FileName(path))}

\* [p for p in doc_root.rglob("*.md*") if not p.name.startswith("_")]
ScannedDocs(files) ==
    {path \in DOMAIN files :
        /\ path[1] = "docs"
        /\ GlobMatch(<<"*", ".", "m", "d", "*">>, FileName(path))
        /\ ~(FileName(path) # <<>> /\ FileName(path)[1] = "_")}

\* hashlib.sha256(b).hexdigest(): distinct inputs give distinct digests
Sha256(b) == <<"sha256", b>>

\* the bytes are valid UTF-8
Decodable(bytes) == \A i \in 1..Len(bytes) : bytes[i] # "xFF"

RECURSIVE UniversalNewlines(_)
\* text-mode reading: "\r\n" and "\r" both arrive as "\n"
UniversalNewlines(t) ==
    IF t = <<>> THEN <<>>
    ELSE IF Head(t) = "\r" /\ Len(t) >= 2 /\ t[2] = "\n"
    THEN <<"\n">> \o UniversalNewlines(Tail(Tail(t)))
    ELSE IF Head(t) = "\r" THEN <<"\n">> \o UniversalNewlines(Tail(t))
    ELSE <<Head(t)>> \o UniversalNewlines(Tail(t))

\* doc_path.read_text() of decodable bytes
ReadText(bytes) == UniversalNewlines(bytes)

\* content.encode()
Encode(text) == text

RECURSIVE LastDot(_)
\* position of the last "." of a name, or 0
LastDot(name) ==
    IF name = <<>> THEN 0
    ELSE IF name[Len(name)] = "." THEN Len(name)
    ELSE LastDot(SubSeq(name, 1, Len(name) - 1))

\* doc_path.stem
Stem(name) ==
    IF LastDot(name) > 1 THEN SubSeq(name, 1, LastDot(name) - 1) ELSE name

RECURSIVE FindFrom(_, _, _)
\* the first position from i on where sub occurs in t, or 0
FindFrom(t, sub, i) ==
    IF i + Len(sub) - 1 > Len(t) THEN 0
    ELSE IF SubSeq(t, i, i + Len(sub) - 1) = sub THEN i
    ELSE FindFrom(t, sub, i + 1)

\* t.split(sep)[0]
BeforeSep(t, sep) ==
    IF FindFrom(t, sep, 1) = 0 THEN t
    ELSE SubSeq(t, 1, FindFrom(t, sep, 1) - 1)

\* t.split(sep)[1], for a t that holds sep
SecondPiece(t, sep) ==
    BeforeSep(SubSeq(t, FindFrom(t, sep, 1) + Len(sep), Len(t)), sep)

RECURSIVE LStrip(_)
LStrip(t) ==
    IF t # <<>> /\ Head(t) \in Whitespace THEN LStrip(Tail(t)) ELSE t

\* t.strip()
Strip(t) == LStrip(RStrip(t))

\* the title generate_metadata sets when the agent answered (122-125)
TitleOf(path, content) ==
    IF FindFrom(content, TitleKey, 1) # 0
    THEN Strip(BeforeSep(SecondPiece(content, TitleKey), <<"\n">>))
    ELSE Stem(FileName(path))

\* mutant: the minimal entry takes its title from the content as well
GenerateMetadataTitled(path, bytes, agent_ok) ==
    [path |-> path,
     title |-> TitleOf(path, ReadText(bytes)),
     topics |-> IF agent_ok THEN "topics" ELSE "None",
     doctype |-> IF agent_ok THEN "concept" ELSE "None",
     summary |-> IF agent_ok THEN "summary" ELSE "None",
     hash |-> Sha256(Encode(ReadText(bytes)))]

\* the DocMetadata generate_metadata returns: the agent's output completed
\* with path, hash and title, or the minimal entry when the agent failed
GenerateMetadata(path, bytes, agent_ok) ==
    [path |-> path,
     title |-> IF agent_ok THEN TitleOf(path, ReadText(bytes))
               ELSE Stem(FileName(path)),
     topics |-> IF agent_ok THEN "topics" ELSE "None",
     doctype |-> IF agent_ok THEN "concept" ELSE "None",
     summary |-> IF agent_ok THEN "summary" ELSE "None",
     hash |-> Sha256(Encode(ReadText(bytes)))]

\* get_docs_to_update(doc_root, catalog, base_path), as a set
GetDocsToUpdate(files, cat) ==
    {path \in ScannedDocs(files) :
        \/ path \notin DOMAIN cat
        \/ cat[path].hash # Sha256(files[path])}

\* mutant: any file at the path counts, eligible or not
GetDocsToRemoveAnyFile(files, cat) == (DOMAIN cat) \ (DOMAIN files)

\* get_docs_to_remove(doc_root, catalog, base_path), as a set; update_catalog
\* computes the same set in line (pipeline.py 926-937)
GetDocsToRemove(files, cat) == (DOMAIN cat) \ ScannedDocs(files)

\* the map m without the keys in S
Without(m, S) == [key \in (DOMAIN m) \ S |-> m[key]]

\* the map m with key bound to value
With(m, key, value) ==
    [k \in (DOMAIN m) \cup {key} |-> IF k = key THEN value ELSE m[k]]

\* all_docs_to_update[:limit] under "if limit:"
CutToLimit(list, limit) ==
    IF limit # 0 THEN SubSeq(list, 1, Min(limit, Len(list))) ELSE list

CatInit ==
    /\ fs = [path \in CatPaths |-> <<"x">>]
    /\ catalog_file = EmptyMap
    /\ catalog = EmptyMap
    /\ uc_pc = "ready"
    /\ docs_to_update = {}
    /\ all_docs_to_update = <<>>
    /\ doc_i = 0
    /\ processed_bytes = EmptyMap
    /\ docs_to_remove = {}
    /\ agent_failed = {}
    /\ removed_count = 0
    /\ PassIdle
    /\ RunIdle
    /\ LaterIdle

\* update_catalog has returned: its catalog object and lists are gone
RunLocalsGone ==
    /\ uc_pc' = "ready"
    /\ catalog' = EmptyMap
    /\ docs_to_update' = {}
    /\ all_docs_to_update' = <<>>
    /\ doc_i' = 0
    /\ docs_to_remove' = {}
    /\ agent_failed' = {}
    /\ removed_count' = 0

\* between runs of update_catalog a file is written
WriteFile ==
    /\ uc_pc \in {"ready", "returned"}
    /\ \E path \in CatPaths :
        \E bytes \in FileBytes(path) :
            /\ path \in DOMAIN fs => fs[path] # bytes
            /\ fs' = With(fs, path, bytes)
    /\ RunLocalsGone
    /\ UNCHANGED <<catalog_file, processed_bytes>>
    /\ UNCHANGED <<passVars, runVars, laterVars>>

\* between runs of update_catalog a document is deleted
DeleteFile ==
    /\ uc_pc \in {"ready", "returned"}
    /\ \E path \in (DOMAIN fs) \cap {DocA, DocB} : fs' = Without(fs, {path})
    /\ RunLocalsGone
    /\ UNCHANGED <<catalog_file, processed_bytes>>
    /\ UNCHANGED <<passVars, runVars, laterVars>>

\* db.remove_catalog_entries(docs_to_remove) returns: db.py defines no
\* function of that name, so the call raises AttributeError
DbRemoveReturns == FALSE

\* removed_count after "if docs_to_remove:" (pipeline.py 939-950)
RemovedCount(gone) ==
    IF gone # {} /\ DbRemoveReturns THEN Cardinality(gone) ELSE 0

\* pipeline.py 915-973: load the catalog, drop the entries whose file is
\* gone, find the documents to update; return at once when there is none.
\* The limit is one of limits and the scan lists the documents in one of
\* the orders Orders gives.
StartWith(limits, Orders(_)) ==
    /\ uc_pc \in {"ready", "returned"}
    /\ \E limit \in limits :
        LET loaded == catalog_file
            gone == GetDocsToRemove(fs, loaded)
            kept == Without(loaded, gone)
            found == GetDocsToUpdate(fs, kept)
        IN  /\ catalog' = kept
            /\ docs_to_remove' = gone
            /\ removed_count' = RemovedCount(gone)
            /\ processed_bytes' = Without(processed_bytes, gone)
            /\ docs_to_update' = found
            /\ \E order \in Orders(found) :
                  all_docs_to_update' = CutToLimit(order, limit)
            /\ uc_pc' = IF found = {} THEN "returned" ELSE "loop"
    /\ doc_i' = 0
    /\ agent_failed' = {}
    /\ UNCHANGED <<fs, catalog_file>>
    /\ UNCHANGED <<passVars, runVars, laterVars>>

UpdateCatalogStart == StartWith(LimitChoices, Listings)

\* pipeline.py 977-991: one document of the metadata loop; the summarizer
\* answers or fails as agent_outcomes allows
StepWith(agent_outcomes) ==
    /\ uc_pc = "loop"
    /\ doc_i < Len(all_docs_to_update)
    /\ LET doc_path == all_docs_to_update[doc_i + 1]
       IN  IF ~Decodable(fs[doc_path])
           THEN \* read_text raises; the loop logs it and goes on
                UNCHANGED <<catalog, catalog_file, processed_bytes,
                            agent_failed>>
           ELSE \E agent_ok \in agent_outcomes :
                   /\ agent_failed' = IF agent_ok THEN agent_failed
                                      ELSE agent_failed \cup {doc_path}
                   /\ catalog' = With(catalog, doc_path,
                          GenerateMetadata(doc_path, fs[doc_path], agent_ok))
                   /\ processed_bytes' =
                          With(processed_bytes, doc_path, fs[doc_path])
                   /\ catalog_file' = IF (doc_i + 1) % SaveEvery = 0
                                      THEN catalog' ELSE catalog_file
    /\ doc_i' = doc_i + 1
    /\ UNCHANGED <<fs, uc_pc, docs_to_update, all_docs_to_update,
                   docs_to_remove, removed_count>>
    /\ UNCHANGED <<passVars, runVars, laterVars>>

UpdateCatalogStep == StepWith(BOOLEAN)

\* pipeline.py 993-1010: the final save and the return
UpdateCatalogFinish ==
    /\ uc_pc = "loop"
    /\ doc_i = Len(all_docs_to_update)
    /\ catalog_file' = catalog
    /\ uc_pc' = "returned"
    /\ UNCHANGED <<fs, catalog, docs_to_update, all_docs_to_update, doc_i,
                   processed_bytes, docs_to_remove, agent_failed,
                   removed_count>>
    /\ UNCHANGED <<passVars, runVars, laterVars>>

CatNext ==
    \/ WriteFile
    \/ DeleteFile
    \/ UpdateCatalogStart
    \/ UpdateCatalogStep
    \/ UpdateCatalogFinish

SpecCatalog == CatInit /\ [][CatNext]_vars

(***************************************************************************)
(* get_docs_to_remove (catalog.py 89-103) on its own: any files under the   *)
(* base path, any catalog.                                                  *)
(***************************************************************************)
\* the file trees: any of the paths may be there
RemoveTrees == {[path \in S |-> <<"x">>] : S \in SUBSET CatPaths}

\* the catalogs: any of the paths may be a key
RemoveCatalogs ==
    {[path \in K |-> GenerateMetadata(path, <<"x">>, FALSE)] :
        K \in SUBSET CatPaths}

RemoveInit ==
    /\ fs \in RemoveTrees
    /\ catalog \in RemoveCatalogs
    /\ catalog_file = EmptyMap
    /\ uc_pc = "ready"
    /\ docs_to_update = {}
    /\ all_docs_to_update = <<>>
    /\ doc_i = 0
    /\ processed_bytes = EmptyMap
    /\ docs_to_remove = {}
    /\ agent_failed = {}
    /\ removed_count = 0
    /\ PassIdle
    /\ RunIdle
    /\ LaterIdle

\* docs_to_remove = get_docs_to_remove(doc_root, catalog, base_path)
GetDocsToRemoveCall ==
    /\ uc_pc = "ready"
    /\ docs_to_remove' = GetDocsToRemove(fs, catalog)
    /\ uc_pc' = "removed"
    /\ UNCHANGED <<fs, catalog_file, catalog, docs_to_update,
                   all_docs_to_update, doc_i, processed_bytes, agent_failed,
                   removed_count>>
    /\ UNCHANGED <<passVars, runVars, laterVars>>

RemoveNext == GetDocsToRemoveCall

SpecRemove == RemoveInit /\ [][RemoveNext]_vars

(***************************************************************************)
(* JSON as pydantic writes and reads it (model_dump_json(indent=2),         *)
(* model_validate_json).  A JSON value is a record: t its kind, v its       *)
(* characters (a string), its items (an array) or its <<key, value>> pairs  *)
(* (an object).                                                             *)
(***************************************************************************)
\* most characters a buffered text file holds back before it writes them
BufferSize == 64

JNull == [t |-> "null", v |-> <<>>]

JStr(chars) == [t |-> "str", v |-> chars]

JArr(items) == [t |-> "arr", v |-> items]

JObj(members) == [t |-> "obj", v |-> members]

RECURSIVE EscapeUnquoted(_)
\* mutant: the quotation mark is written as it is
EscapeUnquoted(chars) ==
    IF chars = <<>> THEN <<>>
    ELSE (IF Head(chars) = "\\" THEN <<"\\", "\\">>
          ELSE IF Head(chars) = "\n" THEN <<"\\", "n">>
          ELSE <<Head(chars)>>) \o EscapeUnquoted(Tail(chars))

RECURSIVE Escape(_)
\* the characters of a string between its quotation marks
Escape(chars) ==
    IF chars = <<>> THEN <<>>
    ELSE (IF Head(chars) = "\"" THEN <<"\\", "\"">>
          ELSE IF Head(chars) = "\\" THEN <<"\\", "\\">>
          ELSE IF Head(chars) = "\n" THEN <<"\\", "n">>
          ELSE <<Head(chars)>>) \o Escape(Tail(chars))

Quote(chars) == <<"\"">> \o Escape(chars) \o <<"\"">>

\* the indentation at a nesting level, width blanks a level
Indent(level, width) == [i \in 1..(width * level) |-> " "]

RECURSIVE DumpJson(_, _, _)
RECURSIVE DumpItems(_, _, _, _)
\* the text of the value j, written at the nesting level with indent=width
DumpJson(j, level, width) ==
    IF j.t = "null" THEN <<"n", "u", "l", "l">>
    ELSE IF j.t = "str" THEN Quote(j.v)
    ELSE LET open == IF j.t = "arr" THEN "[" ELSE "{"
             close == IF j.t = "arr" THEN "]" ELSE "}"
         IN  IF Len(j.v) = 0 THEN <<open, close>>
             ELSE <<open>> \o DumpItems(j, 1, level + 1, width)
                      \o <<"\n">> \o Indent(level, width) \o <<close>>

\* the items of j from the k-th on, each on a line of its own
DumpItems(j, k, level, width) ==
    IF k > Len(j.v) THEN <<>>
    ELSE (IF k > 1 THEN <<",">> ELSE <<>>) \o <<"\n">> \o Indent(level, width)
         \o (IF j.t = "obj"
             THEN Quote(j.v[k][1]) \o <<":", " ">>
                  \o DumpJson(j.v[k][2], level, width)
             ELSE DumpJson(j.v[k], level, width))
         \o DumpItems(j, k + 1, level, width)

JsonWhitespace == {" ", "\n", "\t", "\r"}

RECURSIVE SkipWs(_, _)
SkipWs(t, i) ==
    IF i <= Len(t) /\ t[i] \in JsonWhitespace THEN SkipWs(t, i + 1) ELSE i

\* the text is not JSON
ParseFail == [ok |-> FALSE, v |-> JNull, i |-> 0]

ScanFail == [ok |-> FALSE, v |-> <<>>, i |-> 0]

RECURSIVE ScanString(_, _, _)
\* the characters of the string whose opening quotation mark is before i
ScanString(t, i, acc) ==
    IF i > Len(t) THEN ScanFail
    ELSE IF t[i] = "\"" THEN [ok |-> TRUE, v |-> acc, i |-> i + 1]
    ELSE IF t[i] = "\\"
    THEN IF i + 1 > Len(t) THEN ScanFail
         ELSE IF t[i + 1] = "n" THEN ScanString(t, i + 2, Append(acc, "\n"))
         ELSE IF t[i + 1] \in {"\"", "\\"}
         THEN ScanString(t, i + 2, Append(acc, t[i + 1]))
         ELSE ScanFail
    ELSE IF t[i] = "\n" THEN ScanFail
    ELSE ScanString(t, i + 1, Append(acc, t[i]))

RECURSIVE ParseValue(_, _)
RECURSIVE ParseItems(_, _, _, _)
\* the JSON value that starts at i, and the position after it
ParseValue(t, i0) ==
    LET i == SkipWs(t, i0)
    IN  IF i > Len(t) THEN ParseFail
        ELSE IF t[i] = "\""
        THEN LET r == ScanString(t, i + 1, <<>>)
             IN  IF r.ok THEN [ok |-> TRUE, v |-> JStr(r.v), i |-> r.i]
                 ELSE ParseFail
        ELSE IF t[i] = "n"
        THEN IF i + 3 <= Len(t) /\ SubSeq(t, i, i + 3) = <<"n", "u", "l", "l">>
             THEN [ok |-> TRUE, v |-> JNull, i |-> i + 4]
             ELSE ParseFail
        ELSE IF t[i] = "[" THEN ParseItems(t, i + 1, "arr", <<>>)
        ELSE IF t[i] = "{" THEN ParseItems(t, i + 1, "obj", <<>>)
        ELSE ParseFail

\* the items of an array or object from i on, acc those already read
ParseItems(t, i0, kind, acc) ==
    LET i == SkipWs(t, i0)
        close == IF kind = "arr" THEN "]" ELSE "}"
    IN  IF i > Len(t) THEN ParseFail
        ELSE IF t[i] = close /\ Len(acc) = 0
        THEN [ok |-> TRUE, v |-> [t |-> kind, v |-> acc], i |-> i + 1]
        ELSE LET key == IF kind = "arr" THEN [ok |-> TRUE, v |-> <<>>, i |-> i]
                        ELSE IF t[i] = "\"" THEN ScanString(t, i + 1, <<>>)
                        ELSE ScanFail
                 colon == SkipWs(t, key.i)
                 colon_ok == \/ kind = "arr"
                             \/ key.ok /\ colon <= Len(t) /\ t[colon] = ":"
             IN  IF ~colon_ok THEN ParseFail
                 ELSE LET r == ParseValue(t, IF kind = "arr" THEN i
                                             ELSE colon + 1)
                          item == IF kind = "arr" THEN r.v ELSE <<key.v, r.v>>
                          j == SkipWs(t, r.i)
                      IN  IF ~r.ok \/ j > Len(t) THEN ParseFail
                          ELSE IF t[j] = ","
                          THEN ParseItems(t, j + 1, kind, Append(acc, item))
                          ELSE IF t[j] = close
                          THEN [ok |-> TRUE,
                                v |-> [t |-> kind, v |-> Append(acc, item)],
                                i |-> j + 1]
                          ELSE ParseFail

\* json.loads of a whole text: one value and nothing but whitespace after it
ParseJson(t) ==
    LET r == ParseValue(t, 1)
    IN  IF r.ok /\ SkipWs(t, r.i) > Len(t) THEN r ELSE ParseFail

(***************************************************************************)
(* DocMetadata and DocCatalog (catalog.py 16-52) as JSON.  An Optional      *)
(* field is <<>> when it is None and <<value>> otherwise; docs is the dict  *)
(* as the sequence of its <<key, DocMetadata>> items.                       *)
(***************************************************************************)
KeyDocs == <<"d", "o", "c", "s">>

KeyPath == <<"p", "a", "t", "h">>

KeyTitle == <<"t", "i", "t", "l", "e">>

KeyTopics == <<"t", "o", "p", "i", "c", "s">>

KeyDoctype == <<"d", "o", "c", "t", "y", "p", "e">>

KeySummary == <<"s", "u", "m", "m", "a", "r", "y">>

KeyHash == <<"h", "a", "s", "h">>

DOCTYPES ==
    {<<"c", "o", "n", "c", "e", "p", "t">>, <<"h", "o", "w", "-", "t", "o">>,
     <<"r", "e", "f", "e", "r", "e", "n", "c", "e">>,
     <<"t", "u", "t", "o", "r", "i", "a", "l">>}

\* an Optional[str] as a JSON value
OptStrToJson(opt) == IF opt = <<>> THEN JNull ELSE JStr(opt[1])

\* an Optional[list[str]] as a JSON value
OptListToJson(opt) ==
    IF opt = <<>> THEN JNull
    ELSE JArr([k \in 1..Len(opt[1]) |-> JStr(opt[1][k])])

\* a DocMetadata as a JSON value, its fields in the order of the class
MetadataToJson(md) ==
    JObj(<< <<KeyPath, JStr(md.path)>>,
            <<KeyTitle, OptStrToJson(md.title)>>,
            <<KeyTopics, OptListToJson(md.topics)>>,
            <<KeyDoctype, OptStrToJson(md.doctype)>>,
            <<KeySummary, OptStrToJson(md.summary)>>,
            <<KeyHash, OptStrToJson(md.hash)>> >>)

\* a DocCatalog as a JSON value
CatalogToJson(docs) ==
    JObj(<< <<KeyDocs,
              JObj([k \in 1..Len(docs) |->
                      <<docs[k][1], MetadataToJson(docs[k][2])>>])>> >>)

\* self.model_dump_json(indent=2)
ModelDumpJson(docs) == DumpJson(CatalogToJson(docs), 0, 2)

RECURSIVE MemberFrom(_, _, _)
\* the position of the last member of the object named key, from k down, or 0
MemberFrom(obj, key, k) ==
    IF k = 0 THEN 0
    ELSE IF obj.v[k][1] = key THEN k
    ELSE MemberFrom(obj, key, k - 1)

\* the value of the member named key, or null when there is none
MemberOr(obj, key) ==
    IF MemberFrom(obj, key, Len(obj.v)) = 0 THEN JNull
    ELSE obj.v[MemberFrom(obj, key, Len(obj.v))][2]

\* the JSON value is fit for an Optional[str]
IsOptStr(j) == j.t \in {"null", "str"}

\* the JSON value is fit for an Optional[list[str]]
IsOptList(j) ==
    \/ j.t = "null"
    \/ j.t = "arr" /\ \A k \in 1..Len(j.v) : j.v[k].t = "str"

JsonToOptStr(j) == IF j.t = "null" THEN <<>> ELSE <<j.v>>

JsonToOptList(j) ==
    IF j.t = "null" THEN <<>> ELSE <<[k \in 1..Len(j.v) |-> j.v[k].v]>>

\* the JSON object validates as a DocMetadata
IsMetadata(j) ==
    /\ j.t = "obj"
    /\ MemberFrom(j, KeyPath, Len(j.v)) # 0
    /\ MemberOr(j, KeyPath).t = "str"
    /\ IsOptStr(MemberOr(j, KeyTitle))
    /\ IsOptList(MemberOr(j, KeyTopics))
    /\ IsOptStr(MemberOr(j, KeyDoctype))
    /\ MemberOr(j, KeyDoctype).t = "str" => MemberOr(j, KeyDoctype).v \in DOCTYPES
    /\ IsOptStr(MemberOr(j, KeySummary))
    /\ IsOptStr(MemberOr(j, KeyHash))

\* the DocMetadata a valid JSON object gives
JsonToMetadata(j) ==
    [path |-> MemberOr(j, KeyPath).v,
     title |-> JsonToOptStr(MemberOr(j, KeyTitle)),
     topics |-> JsonToOptList(MemberOr(j, KeyTopics)),
     doctype |-> JsonToOptStr(MemberOr(j, KeyDoctype)),
     summary |-> JsonToOptStr(MemberOr(j, KeySummary)),
     hash |-> JsonToOptStr(MemberOr(j, KeyHash))]

\* what a load gives: it raised (ok is FALSE), or the docs of the catalog
LoadRaised == [ok |-> FALSE, docs |-> <<>>]

\* cls.model_validate_json(text)
ModelValidateJson(text) ==
    LET r == ParseJson(text)
    IN  IF ~r.ok \/ r.v.t # "obj" THEN LoadRaised
        ELSE IF MemberFrom(r.v, KeyDocs, Len(r.v.v)) = 0
        THEN [ok |-> TRUE, docs |-> <<>>]
        ELSE LET d == MemberOr(r.v, KeyDocs)
             IN  IF d.t # "obj" THEN LoadRaised
                 ELSE IF \E k \in 1..Len(d.v) : ~IsMetadata(d.v[k][2])
                 THEN LoadRaised
                 ELSE [ok |-> TRUE,
                       docs |-> [k \in 1..Len(d.v) |->
                                   <<d.v[k][1], JsonToMetadata(d.v[k][2])>>]]

\* DocCatalog.load(path)
DocCatalogLoad(file) ==
    IF file.exists THEN ModelValidateJson(file.text)
    ELSE [ok |-> TRUE, docs |-> <<>>]

(***************************************************************************)
(* DocCatalog.save (catalog.py 48-52) followed by DocCatalog.load (41-46).  *)
(* The file is opened for writing, which empties it; the text goes through  *)
(* the file's buffer and the rest of it is written when the file is closed. *)
(***************************************************************************)
SnapPathA == <<"d", "/", "a">>

\* a path that holds a quotation mark
SnapPathQ == <<"q", "\"">>

\* the minimal entry: only path and hash are set
MinimalEntry(path) ==
    [path |-> path, title |-> <<>>, topics |-> <<>>, doctype |-> <<>>,
     summary |-> <<>>, hash |-> << <<"h">> >>]

\* an entry with every field set; quotation mark, backslash and line break
\* occur in its strings
FullEntry(path) ==
    [path |-> path, title |-> << <<"T">> >>,
     topics |-> << << <<"x">>, <<"y", "\"">> >> >>,
     doctype |-> << <<"h", "o", "w", "-", "t", "o">> >>,
     summary |-> << <<"s", "\"", "\\", "\n", "n", " ">> >>,
     hash |-> << <<"h", "2">> >>]

\* an entry whose title is the string "null", with no topic and an empty
\* summary
OddEntry(path) ==
    [path |-> path, title |-> << <<"n", "u", "l", "l">> >>,
     topics |-> << <<>> >>, doctype |-> <<>>, summary |-> << <<>> >>,
     hash |-> <<>>]

SnapItems ==
    {<<path, MinimalEntry(path)>> : path \in {SnapPathA, SnapPathQ}}
        \cup {<<path, FullEntry(path)>> : path \in {SnapPathA, SnapPathQ}}
        \cup {<<path, OddEntry(path)>> : path \in {SnapPathA, SnapPathQ}}

\* the catalogs: no entry, one, or two under different paths
SnapCatalogs ==
    {<<>>} \cup {<<a>> : a \in SnapItems}
           \cup {q \in SnapItems \X SnapItems : q[1][1] # q[2][1]}

\* the snapshot file before the save: none, or a catalog saved earlier
SavedBeforeChoices ==
    {[exists |-> FALSE, text |-> <<>>],
     [exists |-> TRUE,
      text |-> ModelDumpJson(<< <<SnapPathA, MinimalEntry(SnapPathA)>> >>)]}

SnapInit ==
    /\ snapshot \in SavedBeforeChoices
    /\ saved_before = snapshot
    /\ self_docs \in SnapCatalogs
    /\ save_pc = "ready"
    /\ json_text = <<>>
    /\ flushed = 0
    /\ load_result = LoadRaised
    /\ PassIdle
    /\ RunIdle
    /\ CatIdle
    /\ TaskIdle
    /\ RefIdle
    /\ DiffIdle

\* open(path, "w") empties the file; the text to write is computed
SaveOpen ==
    /\ save_pc = "ready"
    /\ snapshot' = [exists |-> TRUE, text |-> <<>>]
    /\ json_text' = ModelDumpJson(self_docs)
    /\ flushed' = 0
    /\ save_pc' = "open"
    /\ UNCHANGED <<self_docs, saved_before, load_result>>
    /\ UNCHANGED snapOthers

\* f.write: a full buffer goes to the file
SaveFlush ==
    /\ save_pc = "open"
    /\ Len(json_text) - flushed > BufferSize
    /\ snapshot' = [exists |-> TRUE,
                    text |-> snapshot.text
                             \o SubSeq(json_text, flushed + 1,
                                       flushed + BufferSize)]
    /\ flushed' = flushed + BufferSize
    /\ UNCHANGED <<save_pc, self_docs, saved_before, json_text, load_result>>
    /\ UNCHANGED snapOthers

\* the with block ends: the rest of the buffer goes to the file
SaveClose ==
    /\ save_pc = "open"
    /\ Len(json_text) - flushed <= BufferSize
    /\ snapshot' = [exists |-> TRUE,
                    text |-> snapshot.text
                             \o SubSeq(json_text, flushed + 1, Len(json_text))]
    /\ flushed' = Len(json_text)
    /\ save_pc' = "closed"
    /\ UNCHANGED <<self_docs, saved_before, json_text, load_result>>
    /\ UNCHANGED snapOthers

\* the process stops, before, during or after the save
ProcessStops ==
    /\ save_pc \in {"ready", "open", "closed"}
    /\ save_pc' = "stopped"
    /\ UNCHANGED <<snapshot, self_docs, saved_before, json_text, flushed,
                   load_result>>
    /\ UNCHANGED snapOthers

\* DocCatalog.load(path) after the save
LoadSaved ==
    /\ save_pc = "closed"
    /\ load_result' = DocCatalogLoad(snapshot)
    /\ save_pc' = "loaded"
    /\ UNCHANGED <<snapshot, self_docs, saved_before, json_text, flushed>>
    /\ UNCHANGED snapOthers

SnapNext == SaveOpen \/ SaveFlush \/ SaveClose \/ ProcessStops \/ LoadSaved

SpecSnapshot == SnapInit /\ [][SnapNext]_vars

(***************************************************************************)
(* One run of the pipeline for a task (cli.py 37-155): the Search,          *)
(* Coordinate and Write stages with their output files, then create_pr      *)
(* (pipeline.py 691-891) step by step.                                      *)
(***************************************************************************)
SearchLog == "doc_search_agent.log"

InstructorLog == "doc_instructor_agent.log"

WriterLog == "doc_writer_agent.log"

EditsLog == "doc_writer_agent_edits.log"

\* a documentation file committed in the docs repository
DocFileA == <<"d", "/", "a">>

\* a documentation file the writer proposes to create
DocFileNew == <<"d", "/", "n">>

KeyRevisedDoc == <<"r", "e", "v", "i", "s", "e", "d", "_", "d", "o", "c">>

\* json.dump(obj, f, indent=4)
JsonDump(j) == DumpJson(j, 0, 4)

\* one entry of a stage's output that names a document
PathEntry(path) == JObj(<< <<KeyPath, JStr(path)>> >>)

\* one revised document of the writer's log
ChangeEntry(path, text) ==
    JObj(<< <<KeyPath, JStr(path)>>, <<KeyRevisedDoc, JStr(text)>> >>)

\* what the search agent and the instructor agent may answer
ListOutputs == {JArr(<<>>), JArr(<<PathEntry(DocFileA)>>)}

\* what make_changes may produce: no change, a change to a committed file,
\* the same and a new file
ChangeOutputs ==
    {JArr(<<>>),
     JArr(<<ChangeEntry(DocFileA, <<"x", "2">>)>>),
     JArr(<<ChangeEntry(DocFileA, <<"x", "2">>),
            ChangeEntry(DocFileNew, <<"n">>)>>)}

NoFile == [exists |-> FALSE, text |-> <<>>]

FileOf(j) == [exists |-> TRUE, text |-> JsonDump(j)]

\* the stages of run_task_async in order, the output file and the pipeline
\* operation of each of the first three
StageOrder == <<"search", "coordinate", "changes", "pr">>

StageFile == <<SearchLog, InstructorLog, WriterLog>>

StageOperation == <<"search_documents", "coordinate_changes", "make_changes">>

\* what an earlier run had as the output of each stage: nothing that this
\* run's agents answer
EarlierOutput ==
    <<JArr(<<PathEntry(DocFileNew)>>), JArr(<<PathEntry(DocFileNew)>>),
      JArr(<<ChangeEntry(DocFileA, <<"x", "9">>)>>)>>

\* the output files an earlier run may have left
TaskFiles ==
    {[name \in {SearchLog, InstructorLog, WriterLog, EditsLog} |->
        IF name = SearchLog /\ s THEN FileOf(EarlierOutput[1])
        ELSE IF name = InstructorLog /\ c THEN FileOf(EarlierOutput[2])
        ELSE IF name = WriterLog /\ w THEN FileOf(EarlierOutput[3])
        ELSE NoFile] : s \in BOOLEAN, c \in BOOLEAN, w \in BOOLEAN}

\* mutant: an output file is never taken as it is
UseCachedNever(file) == FALSE

\* if output_path.exists()
UseCached(file) == file.exists

TaskInit ==
    /\ out_files \in TaskFiles
    /\ task_pc = "search"
    /\ calls = <<>>
    /\ stage_log = <<>>
    /\ head_files = [path \in {DocFileA} |-> <<"x">>]
    /\ doc_files \in {head_files, [path \in {DocFileA} |-> <<"u">>]}
    /\ github_token \in BOOLEAN
    /\ proposed_changes = <<>>
    /\ written = {}
    /\ pr_failed = FALSE
    /\ PassIdle
    /\ RunIdle
    /\ CatIdle
    /\ SnapIdle
    /\ RefIdle
    /\ DiffIdle

\* a stage with caching: load the output file when it is there, else run
\* the operation, which asks its agent, writes files and returns its output
RunStage(stage, name, operation, outputs, also_written, next) ==
    /\ task_pc = stage
    /\ IF UseCached(out_files[name])
       THEN /\ stage_log' = Append(stage_log,
                   [stage |-> stage, existed |-> out_files[name].exists,
                    completed |-> ParseJson(out_files[name].text).ok,
                    result |-> ParseJson(out_files[name].text).v])
            /\ task_pc' = IF ParseJson(out_files[name].text).ok THEN next
                          ELSE "raised"
            /\ UNCHANGED <<out_files, calls>>
       ELSE /\ calls' = Append(calls, operation)
            /\ \/ \* the agent call raises: the run ends
                  /\ stage_log' = Append(stage_log,
                         [stage |-> stage, existed |-> out_files[name].exists,
                          completed |-> FALSE, result |-> JNull])
                  /\ task_pc' = "raised"
                  /\ UNCHANGED out_files
               \/ \E output \in outputs :
                     /\ out_files' =
                            [n \in DOMAIN out_files |->
                                IF n = name THEN FileOf(output)
                                ELSE IF n \in also_written
                                THEN FileOf(JArr(<<>>))
                                ELSE out_files[n]]
                     /\ stage_log' = Append(stage_log,
                            [stage |-> stage,
                             existed |-> out_files[name].exists,
                             completed |-> TRUE, result |-> output])
                     /\ task_pc' = next
    /\ UNCHANGED <<doc_files, head_files, github_token, proposed_changes,
                   written, pr_failed>>
    /\ UNCHANGED taskOthers

\* Stage 1 (cli.py 37-51, 127)
RunSearchStage ==
    RunStage("search", SearchLog, "search_documents", ListOutputs, {},
             "coordinate")

\* Stage 2 (cli.py 54-77, 134)
RunCoordinateStage ==
    RunStage("coordinate", InstructorLog, "coordinate_changes", ListOutputs,
             {}, "changes")

\* Stage 3 (cli.py 80-105, 141): make_changes also writes the raw edits
RunChangesStage ==
    RunStage("changes", WriterLog, "make_changes", ChangeOutputs, {EditsLog},
             "pr")

\* Stage 4 (cli.py 108-116, 147) and create_pr up to its try (724-742)
RunPrStage ==
    /\ task_pc = "pr"
    /\ calls' = Append(calls, "create_pr")
    /\ LET loaded_changes == ParseJson(out_files[WriterLog].text)
       IN  /\ stage_log' = Append(stage_log,
                  [stage |-> "pr", existed |-> FALSE,
                   completed |-> loaded_changes.ok, result |-> JNull])
           /\ IF ~out_files[WriterLog].exists \/ ~loaded_changes.ok
              THEN /\ task_pc' = "raised"
                   /\ UNCHANGED proposed_changes
              ELSE IF Len(loaded_changes.v.v) = 0
              THEN \* "No changes to apply"
                   /\ task_pc' = "done"
                   /\ UNCHANGED proposed_changes
              ELSE /\ task_pc' = "pr_write"
                   /\ proposed_changes' = loaded_changes.v.v
    /\ UNCHANGED <<out_files, doc_files, head_files, github_token, written,
                   pr_failed>>
    /\ UNCHANGED taskOthers

\* create_pr 745-757: one revised document is written over its file
PrWriteFile ==
    /\ task_pc = "pr_write"
    /\ proposed_changes # <<>>
    /\ LET change == Head(proposed_changes)
           change_path == MemberOr(change, KeyPath).v
       IN  /\ doc_files' = With(doc_files, change_path,
                                MemberOr(change, KeyRevisedDoc).v)
           /\ written' = written \cup {change_path}
    /\ proposed_changes' = Tail(proposed_changes)
    /\ UNCHANGED <<out_files, task_pc, calls, stage_log, head_files,
                   github_token, pr_failed>>
    /\ UNCHANGED taskOthers

\* create_pr 763-766: the token is looked up once every file is written
PrCheckToken ==
    /\ task_pc = "pr_write"
    /\ proposed_changes = <<>>
    /\ pr_failed' = ~github_token
    /\ task_pc' = IF github_token THEN "pr_publish" ELSE "pr_finally"
    /\ UNCHANGED <<out_files, calls, stage_log, doc_files, head_files,
                   github_token, proposed_changes, written>>
    /\ UNCHANGED taskOthers

\* create_pr 768-877: branch, commit, push and pull request, which may raise
PrPublish ==
    /\ task_pc = "pr_publish"
    /\ pr_failed' \in BOOLEAN
    /\ task_pc' = "pr_finally"
    /\ UNCHANGED <<out_files, calls, stage_log, doc_files, head_files,
                   github_token, proposed_changes, written>>
    /\ UNCHANGED taskOthers

\* create_pr 879-891: back to the original branch with checkout --force and
\* clean -fd, unless git fails; then the exception, if any, leaves create_pr
PrFinally ==
    /\ task_pc = "pr_finally"
    /\ \/ doc_files' = head_files
       \/ UNCHANGED doc_files
    /\ task_pc' = IF pr_failed THEN "raised" ELSE "done"
    /\ UNCHANGED <<out_files, calls, stage_log, head_files, github_token,
                   proposed_changes, written, pr_failed>>
    /\ UNCHANGED taskOthers

TaskNext ==
    \/ RunSearchStage
    \/ RunCoordinateStage
    \/ RunChangesStage
    \/ RunPrStage
    \/ PrWriteFile
    \/ PrCheckToken
    \/ PrPublish
    \/ PrFinally

SpecTask == TaskInit /\ [][TaskNext]_vars

(***************************************************************************)
(* The three stages with the writing of the output file step by step        *)
(* (pipeline.py 149-151, 255-257, 578-580: open(output_path, "w"), then     *)
(* json.dump into the buffered file, then close), runs that stop at any     *)
(* point, and runs started again on the files left behind.                  *)
(***************************************************************************)
\* what the agents of the stages may answer
StageOutputs == <<ListOutputs, ListOutputs, ChangeOutputs>>

\* the files an operation writes in full before it opens its output file
WrittenBefore == <<{}, {}, {EditsLog}>>

\* the stage whose output file is being written
WritingStage == Len(stage_log)

\* the whole text json.dump is to write for the stage being written
FullText == JsonDump(stage_log[WritingStage].result)

CrashInit ==
    /\ out_files = [name \in {SearchLog, InstructorLog, WriterLog, EditsLog}
                        |-> NoFile]
    /\ task_pc = "search"
    /\ calls = <<>>
    /\ stage_log = <<>>
    /\ head_files = EmptyMap
    /\ doc_files = EmptyMap
    /\ github_token = FALSE
    /\ proposed_changes = <<>>
    /\ written = {}
    /\ pr_failed = FALSE
    /\ PassIdle
    /\ RunIdle
    /\ CatIdle
    /\ SnapIdle
    /\ RefIdle
    /\ DiffIdle

\* the stage finds its output file and loads it (cli.py 41-45, 59-67, 86-94)
StageLoad ==
    \E k \in 1..3 :
        /\ task_pc = StageOrder[k]
        /\ UseCached(out_files[StageFile[k]])
        /\ stage_log' = Append(stage_log,
               [stage |-> StageOrder[k], existed |-> TRUE,
                completed |-> ParseJson(out_files[StageFile[k]].text).ok,
                result |-> ParseJson(out_files[StageFile[k]].text).v])
        /\ task_pc' = IF ParseJson(out_files[StageFile[k]].text).ok
                      THEN StageOrder[k + 1] ELSE "raised"
        /\ UNCHANGED <<out_files, calls, doc_files, head_files, github_token,
                       proposed_changes, written, pr_failed>>
        /\ UNCHANGED taskOthers

\* the stage finds no output file and runs its operation up to
\* open(output_path, "w"): the agent raises, or it answers and the file is
\* created empty
StageOpen ==
    \E k \in 1..3 :
        /\ task_pc = StageOrder[k]
        /\ ~UseCached(out_files[StageFile[k]])
        /\ calls' = Append(calls, StageOperation[k])
        /\ \/ /\ stage_log' = Append(stage_log,
                      [stage |-> StageOrder[k], existed |-> FALSE,
                       completed |-> FALSE, result |-> JNull])
              /\ task_pc' = "raised"
              /\ UNCHANGED out_files
           \/ \E output \in StageOutputs[k] :
                 /\ stage_log' = Append(stage_log,
                        [stage |-> StageOrder[k], existed |-> FALSE,
                         completed |-> FALSE, result |-> output])
                 /\ out_files' =
                        [n \in DOMAIN out_files |->
                            IF n = StageFile[k]
                            THEN [exists |-> TRUE, text |-> <<>>]
                            ELSE IF n \in WrittenBefore[k]
                            THEN FileOf(JArr(<<>>))
                            ELSE out_files[n]]
                 /\ task_pc' = "writing"
        /\ UNCHANGED <<doc_files, head_files, github_token, proposed_changes,
                       written, pr_failed>>
        /\ UNCHANGED taskOthers

\* json.dump has filled the buffer: BufferSize more characters reach the file
StageFlush ==
    /\ task_pc = "writing"
    /\ LET name == StageFile[WritingStage]
           so_far == Len(out_files[name].text)
       IN  /\ so_far + BufferSize < Len(FullText)
           /\ out_files' =
                  [out_files EXCEPT
                      ![name].text = SubSeq(FullText, 1, so_far + BufferSize)]
    /\ UNCHANGED <<task_pc, calls, stage_log, doc_files, head_files,
                   github_token, proposed_changes, written, pr_failed>>
    /\ UNCHANGED taskOthers

\* the with block ends: the rest is written and the operation returns
StageClose ==
    /\ task_pc = "writing"
    /\ out_files' =
           [out_files EXCEPT ![StageFile[WritingStage]].text = FullText]
    /\ stage_log' =
           [stage_log EXCEPT ![WritingStage].completed = TRUE]
    /\ task_pc' = StageOrder[WritingStage + 1]
    /\ UNCHANGED <<calls, doc_files, head_files, github_token,
                   proposed_changes, written, pr_failed>>
    /\ UNCHANGED taskOthers

\* the process is killed, or the machine stops
RunStops ==
    /\ task_pc \in {"search", "coordinate", "changes", "writing"}
    /\ task_pc' = "stopped"
    /\ UNCHANGED <<out_files, calls, stage_log, doc_files, head_files,
                   github_token, proposed_changes, written, pr_failed>>
    /\ UNCHANGED taskOthers

\* the task is run again on the files the run before left
RunAgain ==
    /\ task_pc \in {"stopped", "raised", "pr"}
    /\ task_pc' = "search"
    /\ calls' = <<>>
    /\ stage_log' = <<>>
    /\ UNCHANGED <<out_files, doc_files, head_files, github_token,
                   proposed_changes, written, pr_failed>>
    /\ UNCHANGED taskOthers

CrashNext ==
    \/ StageLoad
    \/ StageOpen
    \/ StageFlush
    \/ StageClose
    \/ RunStops
    \/ RunAgain

SpecCrash == CrashInit /\ [][CrashNext]_vars

(***************************************************************************)
(* parse_doc_refs (agents.py 217-255).  The text of a document counts for   *)
(* the import statements it holds: re.findall gives their targets in the    *)
(* order they occur, so a text is the sequence of those targets.            *)
(***************************************************************************)
\* how deep below the primary document a Document of the result may lie:
\* the function resolves the direct references only
DepthLimit == 1

NamePy == <<"c", ".", "p", "y">>

NameGone == <<"g", ".", "m", "d">>

\* the targets an import statement may name: a document, the same with a
\* leading slash, another document, a code file, a file that is not there
ImportTargets ==
    {NameAmd, <<"/">> \o NameAmd, NameBmdx, <<"/">> \o NameBmdx, NamePy,
     NameGone}

\* the texts of a document: no import, one, or two
RefTexts ==
    {<<>>} \cup {<<m>> : m \in ImportTargets}
           \cup {<<NameBmdx, <<"/">> \o NameBmdx>>,
                 <<NameAmd, NameBmdx>>, <<NamePy, NamePy>>}

RECURSIVE LStripSlash(_)
\* match.lstrip("/")
LStripSlash(match) ==
    IF match # <<>> /\ Head(match) = "/" THEN LStripSlash(Tail(match))
    ELSE match

\* Path("docs") / match, the leading slash dropped when there is one
ImportPath(match) ==
    IF match # <<>> /\ Head(match) = "/"
    THEN <<"docs", LStripSlash(match)>>
    ELSE <<"docs", match>>

\* os.path.splitext(...)[1]
ExtOf(name) ==
    IF LastDot(name) > 1 THEN SubSeq(name, LastDot(name), Len(name)) ELSE <<>>

\* a doc_body that is the text of a file
FileBody(text) == [text |-> text, placeholder |-> FALSE]

\* "Body not included for brevity."
PlaceholderBody == [text |-> <<>>, placeholder |-> TRUE]

\* the body loaded for a referenced file (240-246); ext reads ".py", which
\* is not in code_extensions_list, so both placeholders are the same case
RefContent(import_path, files, with_code) ==
    IF FindFrom(ExtOf(FileName(import_path)), <<"m", "d">>, 1) # 0 \/ with_code
    THEN FileBody(files[FileName(import_path)])
    ELSE PlaceholderBody

\* mutant: a referenced document carries a reference of its own
WeaviateLeafNested(path, body) ==
    [path |-> path, doc_body |-> body,
     referenced_docs |->
        <<[path |-> path, doc_body |-> body, referenced_docs |-> <<>>]>>]

\* WeaviateDoc(path=..., doc_body=..., referenced_docs=[])
WeaviateLeaf(path, body) ==
    [path |-> path, doc_body |-> body, referenced_docs |-> <<>>]

RefInit ==
    /\ \E text_a \in RefTexts, text_b \in RefTexts :
          ref_files = [name \in {NameAmd, NameBmdx, NamePy} |->
                          IF name = NameAmd THEN text_a
                          ELSE IF name = NameBmdx THEN text_b ELSE <<>>]
    /\ file_path \in {<<"docs", NameAmd>>, <<"docs", NameBmdx>>,
                      <<"docs", NameGone>>}
    /\ include_code_body \in BOOLEAN
    /\ ref_pc = "start"
    /\ matches = <<>>
    /\ match_i = 0
    /\ referenced_docs = <<>>
    /\ parsed = EmptyMap
    /\ PassIdle
    /\ RunIdle
    /\ CatIdle
    /\ SnapIdle
    /\ TaskIdle
    /\ DiffIdle

\* agents.py 219-231: a missing file gives an empty Document; else the text
\* is read and searched for import statements
ParseStart ==
    /\ ref_pc = "start"
    /\ IF FileName(file_path) \notin DOMAIN ref_files
       THEN /\ parsed' = WeaviateLeaf(file_path, FileBody(<<>>))
            /\ ref_pc' = "done"
            /\ UNCHANGED matches
       ELSE /\ matches' = ref_files[FileName(file_path)]
            /\ ref_pc' = "loop"
            /\ UNCHANGED parsed
    /\ UNCHANGED <<ref_files, file_path, include_code_body, match_i,
                   referenced_docs>>
    /\ UNCHANGED refOthers

\* agents.py 232-251: one match of the loop
ParseMatch ==
    /\ ref_pc = "loop"
    /\ match_i < Len(matches)
    /\ LET import_path == ImportPath(matches[match_i + 1])
       IN  referenced_docs' =
               IF FileName(import_path) \in DOMAIN ref_files
               THEN Append(referenced_docs,
                           WeaviateLeaf(import_path,
                                        RefContent(import_path, ref_files,
                                                   include_code_body)))
               ELSE referenced_docs
    /\ match_i' = match_i + 1
    /\ UNCHANGED <<ref_files, ref_pc, file_path, include_code_body, matches,
                   parsed>>
    /\ UNCHANGED refOthers

\* agents.py 253-255
ParseReturn ==
    /\ ref_pc = "loop"
    /\ match_i = Len(matches)
    /\ parsed' = [path |-> file_path,
                  doc_body |-> FileBody(ref_files[FileName(file_path)]),
                  referenced_docs |-> referenced_docs]
    /\ ref_pc' = "done"
    /\ UNCHANGED <<ref_files, file_path, include_code_body, matches, match_i,
                   referenced_docs>>
    /\ UNCHANGED refOthers

RefNext == ParseStart \/ ParseMatch \/ ParseReturn

\* the call is not suspended for ever: it has no await and no lock
SpecRefs == RefInit /\ [][RefNext]_vars /\ WF_vars(RefNext)

(***************************************************************************)
(* create_diff (5_create_diffs.py 8-18): difflib.unified_diff over the      *)
(* lines of the two texts, line ends kept.  Positions in the line lists     *)
(* count from 0, as in difflib; a block or an opcode covers [i1, i2).       *)
(***************************************************************************)
\* longest text (in characters) drawn as input of create_diff
MaxDiffLen == 3

\* n=5: the lines of context around a change
ContextLines == 5

RECURSIVE SplitKeepFrom(_, _, _, _)
SplitKeepFrom(t, i, cur, acc) ==
    IF i > Len(t)
    THEN IF cur = <<>> THEN acc ELSE Append(acc, cur)
    ELSE IF t[i] = "\r" /\ i < Len(t) /\ t[i + 1] = "\n"
    THEN SplitKeepFrom(t, i + 2, <<>>, Append(acc, cur \o <<"\r", "\n">>))
    ELSE IF t[i] \in LineBreaks
    THEN SplitKeepFrom(t, i + 1, <<>>, Append(acc, Append(cur, t[i])))
    ELSE SplitKeepFrom(t, i + 1, Append(cur, t[i]), acc)

\* mutant: the line ends are dropped
SplitLinesDropEnds(t) == SplitLines(t)

\* t.splitlines(keepends=True)
SplitLinesKeepEnds(t) == SplitKeepFrom(t, 1, <<>>, <<>>)

\* SequenceMatcher.find_longest_match: the longest block common to
\* a[alo:ahi] and b[blo:bhi], the earliest in a and then in b among the
\* longest (no element is junk: isjunk is None and the lists are short)
FindLongestMatch(a, b, alo, ahi, blo, bhi) ==
    LET blocks ==
            {m \in [i : alo..(ahi - 1), j : blo..(bhi - 1),
                    k : 1..Min(ahi - alo, bhi - blo)] :
                /\ m.i + m.k <= ahi
                /\ m.j + m.k <= bhi
                /\ \A d \in 1..m.k : a[m.i + d] = b[m.j + d]}
    IN  IF blocks = {} THEN [i |-> alo, j |-> blo, k |-> 0]
        ELSE CHOOSE m \in blocks :
                \A e \in blocks :
                    \/ m.k > e.k
                    \/ m.k = e.k /\ m.i < e.i
                    \/ m.k = e.k /\ m.i = e.i /\ m.j <= e.j

RECURSIVE MatchingBlocksIn(_, _, _, _, _, _)
\* the blocks get_matching_blocks finds in a[alo:ahi] and b[blo:bhi]: the
\* longest match, then the same to its left and to its right
MatchingBlocksIn(a, b, alo, ahi, blo, bhi) ==
    LET m == FindLongestMatch(a, b, alo, ahi, blo, bhi)
    IN  IF m.k = 0 THEN <<>>
        ELSE (IF alo < m.i /\ blo < m.j
              THEN MatchingBlocksIn(a, b, alo, m.i, blo, m.j) ELSE <<>>)
             \o <<m>>
             \o (IF m.i + m.k < ahi /\ m.j + m.k < bhi
                 THEN MatchingBlocksIn(a, b, m.i + m.k, ahi, m.j + m.k, bhi)
                 ELSE <<>>)

RECURSIVE MergeAdjacent(_)
\* adjacent blocks become one
MergeAdjacent(blocks) ==
    IF Len(blocks) < 2 THEN blocks
    ELSE IF /\ blocks[1].i + blocks[1].k = blocks[2].i
            /\ blocks[1].j + blocks[1].k = blocks[2].j
    THEN MergeAdjacent(<<[i |-> blocks[1].i, j |-> blocks[1].j,
                          k |-> blocks[1].k + blocks[2].k]>>
                       \o Tail(Tail(blocks)))
    ELSE <<blocks[1]>> \o MergeAdjacent(Tail(blocks))

\* SequenceMatcher.get_matching_blocks, the closing empty block included
GetMatchingBlocks(a, b) ==
    Append(MergeAdjacent(MatchingBlocksIn(a, b, 0, Len(a), 0, Len(b))),
           [i |-> Len(a), j |-> Len(b), k |-> 0])

RECURSIVE OpcodesFrom(_, _, _, _)
\* the opcodes from the n-th block on, a and b being done up to i and j
OpcodesFrom(blocks, n, i, j) ==
    IF n > Len(blocks) THEN <<>>
    ELSE LET m == blocks[n]
             tag == IF i < m.i /\ j < m.j THEN "replace"
                    ELSE IF i < m.i THEN "delete"
                    ELSE IF j < m.j THEN "insert" ELSE ""
         IN  (IF tag = "" THEN <<>>
              ELSE <<[tag |-> tag, i1 |-> i, i2 |-> m.i, j1 |-> j,
                      j2 |-> m.j]>>)
             \o (IF m.k = 0 THEN <<>>
                 ELSE <<[tag |-> "equal", i1 |-> m.i, i2 |-> m.i + m.k,
                         j1 |-> m.j, j2 |-> m.j + m.k]>>)
             \o OpcodesFrom(blocks, n + 1, m.i + m.k, m.j + m.k)

\* SequenceMatcher.get_opcodes
GetOpcodes(a, b) == OpcodesFrom(GetMatchingBlocks(a, b), 1, 0, 0)

\* the first opcode, if equal, keeps its last n lines
TrimFirst(codes, n) ==
    IF codes[1].tag = "equal"
    THEN <<[tag |-> "equal",
            i1 |-> Max(codes[1].i1, codes[1].i2 - n), i2 |-> codes[1].i2,
            j1 |-> Max(codes[1].j1, codes[1].j2 - n), j2 |-> codes[1].j2]>>
         \o Tail(codes)
    ELSE codes

\* the last opcode, if equal, keeps its first n lines
TrimLast(codes, n) ==
    LET last == codes[Len(codes)]
    IN  IF last.tag = "equal"
        THEN SubSeq(codes, 1, Len(codes) - 1)
             \o <<[tag |-> "equal",
                   i1 |-> last.i1, i2 |-> Min(last.i2, last.i1 + n),
                   j1 |-> last.j1, j2 |-> Min(last.j2, last.j1 + n)]>>
        ELSE codes

\* SequenceMatcher.get_grouped_opcodes(n): the groups of opcodes with their
\* context; a lone equal opcode makes no group.  (A run of more than 2n
\* equal lines would start a new group; the texts here are shorter.)
GetGroupedOpcodes(a, b, n) ==
    LET codes == IF GetOpcodes(a, b) = <<>>
                 THEN <<[tag |-> "equal", i1 |-> 0, i2 |-> 1, j1 |-> 0,
                         j2 |-> 1]>>
                 ELSE GetOpcodes(a, b)
        group == TrimLast(TrimFirst(codes, n), n)
    IN  IF Len(group) = 1 /\ group[1].tag = "equal" THEN <<>> ELSE <<group>>

DigitChars == <<"0", "1", "2", "3", "4", "5", "6", "7", "8", "9">>

RECURSIVE Digits(_)
\* str(n)
Digits(n) ==
    IF n < 10 THEN <<DigitChars[n + 1]>>
    ELSE Digits(n \div 10) \o <<DigitChars[(n % 10) + 1]>>

\* difflib._format_range_unified
FormatRangeUnified(start, stop) ==
    LET length == stop - start
    IN  IF length = 1 THEN Digits(start + 1)
        ELSE Digits(IF length = 0 THEN start ELSE start + 1)
             \o <<",">> \o Digits(length)

\* the lines ls[lo:hi], each after the prefix
Prefixed(prefix, ls, lo, hi) == [k \in 1..(hi - lo) |-> <<prefix>> \o ls[lo + k]]

RECURSIVE HunkLines(_, _, _, _)
\* the lines of a hunk for the opcodes of a group from the n-th on
HunkLines(group, n, a, b) ==
    IF n > Len(group) THEN <<>>
    ELSE (IF group[n].tag = "equal"
          THEN Prefixed(" ", a, group[n].i1, group[n].i2)
          ELSE (IF group[n].tag \in {"replace", "delete"}
                THEN Prefixed("-", a, group[n].i1, group[n].i2) ELSE <<>>)
               \o (IF group[n].tag \in {"replace", "insert"}
                   THEN Prefixed("+", b, group[n].j1, group[n].j2)
                   ELSE <<>>))
         \o HunkLines(group, n + 1, a, b)

\* difflib.unified_diff(a, b, fromfile="a/" + path, tofile="b/" + path, n):
\* the lines it yields
UnifiedDiff(a, b, path, n) ==
    LET groups == GetGroupedOpcodes(a, b, n)
    IN  IF groups = <<>> THEN <<>>
        ELSE LET group == groups[1]
                 last == group[Len(group)]
             IN  << <<"-", "-", "-", " ", "a", "/">> \o path \o <<"\n">>,
                    <<"+", "+", "+", " ", "b", "/">> \o path \o <<"\n">>,
                    <<"@", "@", " ", "-">>
                        \o FormatRangeUnified(group[1].i1, last.i2)
                        \o <<" ", "+">>
                        \o FormatRangeUnified(group[1].j1, last.j2)
                        \o <<" ", "@", "@", "\n">> >>
                 \o HunkLines(group, 1, a, b)

RECURSIVE JoinAll(_)
\* "".join(ls)
JoinAll(ls) == IF ls = <<>> THEN <<>> ELSE Head(ls) \o JoinAll(Tail(ls))

\* create_diff(old_content, new_content, file_path)
create_diff(old, new, path) ==
    JoinAll(UnifiedDiff(SplitLinesKeepEnds(old), SplitLinesKeepEnds(new),
                        path, ContextLines))

DiffAlphabet == {"a", "b", "\n"}

\* the texts of at most MaxDiffLen characters, and two with a CRLF line end
DiffTexts ==
    UNION {[1..n -> DiffAlphabet] : n \in 0..MaxDiffLen}
        \cup {<<"a", "\r", "\n">>, <<"a", "\r", "\n", "b">>}

DiffInit ==
    /\ old_content \in DiffTexts
    /\ new_content \in DiffTexts
    /\ diff = <<>>
    /\ all_diffs \in {<<>>, <<"@">>}
    /\ diff_pc = "ready"
    /\ PassIdle
    /\ RunIdle
    /\ CatIdle
    /\ SnapIdle
    /\ TaskIdle
    /\ RefIdle

\* main, 5_create_diffs.py 50-53: the diff of one file joins the others
CreateDiffCall ==
    /\ diff_pc = "ready"
    /\ diff' = create_diff(old_content, new_content, DocFileA)
    /\ all_diffs' = all_diffs \o diff'
    /\ diff_pc' = "done"
    /\ UNCHANGED <<old_content, new_content>>
    /\ UNCHANGED diffOthers

DiffNext == CreateDiffCall

SpecDiff == DiffInit /\ [][DiffNext]_vars

(***************************************************************************)
(* update_catalog on a long batch: a first run over MaxBatch new documents, *)
(* of which up to two cannot be read.  The scan lists them by number and    *)
(* the summarizer answers for every document it is given.                   *)
(***************************************************************************)
\* documents of the batch
MaxBatch == 20

\* docs/<k>.md
BatchDoc(k) == <<"docs", Digits(k) \o <<".", "m", "d">>>>

\* the documents whose bytes are not valid UTF-8: none, one or two
UnreadableChoices == {{}} \cup {{k, m} : k, m \in 1..MaxBatch}

BatchTrees ==
    {[path \in {BatchDoc(k) : k \in 1..MaxBatch} |->
        IF path \in {BatchDoc(k) : k \in unreadable}
        THEN <<"xFF">> ELSE <<"x">>] :
     unreadable \in UnreadableChoices}

\* the documents of found in the order of their numbers
BatchOrder(found) ==
    {SelectSeq([k \in 1..MaxBatch |-> BatchDoc(k)],
               LAMBDA path : path \in found)}

BatchInit ==
    /\ fs \in BatchTrees
    /\ catalog_file = EmptyMap
    /\ catalog = EmptyMap
    /\ uc_pc = "ready"
    /\ docs_to_update = {}
    /\ all_docs_to_update = <<>>
    /\ doc_i = 0
    /\ processed_bytes = EmptyMap
    /\ docs_to_remove = {}
    /\ agent_failed = {}
    /\ removed_count = 0
    /\ PassIdle
    /\ RunIdle
    /\ LaterIdle

BatchStart == StartWith({0}, BatchOrder)

BatchStep == StepWith({TRUE})

BatchNext == BatchStart \/ BatchStep \/ UpdateCatalogFinish

SpecBatch == BatchInit /\ [][BatchNext]_vars

(***************************************************************************)
(* Claims about the single-file pass (checked under SpecPass).              *)
(***************************************************************************)
\* the lines of the content the pass started from
OrigLines == SplitLines(content_to_edit)

\* the lone edit of a one-edit pass, once the loop has taken it
LoneEditTaken == Len(agent_edits) = 1 /\ pos = 2

ReplLines(e) == SplitLines(e.replacement_txt)

EditRange(e) == e.start_line..e.end_line

\* no two edits of the agent's list name a common line
NonOverlapping ==
    \A k, m \in 1..Len(agent_edits) :
        k # m => EditRange(agent_edits[k]) \cap EditRange(agent_edits[m]) = {}

\* original line i is named by no edit
OutsideAllRanges(i) ==
    \A k \in 1..Len(agent_edits) : i \notin EditRange(agent_edits[k])

\* lines an applied edit adds, less the lines it removes
EditDelta(e) ==
    Len(ReplLines(e)) - (IF e.edit_type \in {"add_new", "enhance"}
                         THEN 0 ELSE e.end_line - e.start_line + 1)

RECURSIVE ShiftUpTo(_, _)
\* how far original line i has moved: the deltas of the applied edits among
\* the first k of the sorted list that start at or before line i
ShiftUpTo(i, k) ==
    IF k = 0 THEN 0
    ELSE ShiftUpTo(i, k - 1)
         + (IF ~skipped[k] /\ edits[k].start_line <= i
            THEN EditDelta(edits[k]) ELSE 0)

\* where original line i is due in the final list
FinalPos(i) == i + ShiftUpTo(i, Len(edits))

\* C4 (as amended): with two or more edits on pairwise disjoint (possibly
\* adjacent) line ranges, every original line outside all the ranges is in
\* the cleaned line list that is joined and written back, at its original
\* position moved by the edits below it (so in original relative order),
\* with its content unchanged apart from trailing whitespace being stripped.
C4_OutsideLinesKeptStripped ==
    (pass_pc = "done" /\ Len(agent_edits) >= 2 /\ NonOverlapping) =>
        \A i \in 1..Len(OrigLines) :
            OutsideAllRanges(i) =>
                /\ FinalPos(i) \in 1..Len(lines)
                /\ CleanedLines(lines)[FinalPos(i)] = RStrip(OrigLines[i])
                /\ pass_result = JoinLines(CleanedLines(lines))

\* C4 (as claimed): the same lines are in the result with unchanged content.
C4_OutsideLinesUnchanged ==
    (pass_pc = "done" /\ Len(agent_edits) >= 2 /\ NonOverlapping) =>
        \A i \in 1..Len(OrigLines) :
            OutsideAllRanges(i) =>
                /\ FinalPos(i) \in 1..Len(lines)
                /\ CleanedLines(lines)[FinalPos(i)] = OrigLines[i]

\* C4 witness: lines 2 and 3 of three were replaced by adjacent edits, both
\* applied and the upper one growing the file, and line 1, which carries
\* trailing whitespace, lies outside both
C4_Witness ==
    /\ pass_pc = "done"
    /\ Len(agent_edits) = 2
    /\ NonOverlapping
    /\ Len(OrigLines) = 3
    /\ OrigLines[1] # RStrip(OrigLines[1])
    /\ {agent_edits[1].start_line, agent_edits[2].start_line} = {2, 3}
    /\ \A k \in 1..2 : /\ agent_edits[k].edit_type = "update_outdated"
                        /\ agent_edits[k].end_line = agent_edits[k].start_line
                        /\ Len(ReplLines(agent_edits[k])) = 2
    /\ skipped = <<FALSE, FALSE>>
    /\ Len(lines) = 5

RECURSIVE KeptEdits(_, _)
\* the edits of es that the log sk does not mark as skipped
KeptEdits(es, sk) ==
    IF es = <<>> \/ sk = <<>> THEN <<>>
    ELSE (IF Head(sk) THEN <<>> ELSE <<Head(es)>>)
         \o KeptEdits(Tail(es), Tail(sk))

\* the claim's own wording of a malformed edit, on a list of n lines
Malformed(e, n) ==
    LET si == e.start_line - 1
        ei == IF e.edit_type \in {"add_new", "enhance"} THEN si ELSE e.end_line
    IN  si < 0 \/ si > n \/ ei > n \/ ei < si

\* C5: an edit with out-of-range or inverted indices is skipped and changes
\* no line: at every point of the loop the working list is what applying
\* only the other edits taken so far gives, the loop goes on to take every
\* edit of the list, and when the next edit is malformed the list passes
\* through its iteration unchanged.
C5_MalformedSkipped ==
    /\ pass_pc \in {"loop", "done"} =>
           /\ Len(skipped) = pos - 1
           /\ lines = ApplyEdits(OrigLines,
                                 KeptEdits(SubSeq(edits, 1, pos - 1), skipped))
    /\ pass_pc = "done" => Len(skipped) = Len(edits)
    /\ (pass_pc = "loop" /\ pos <= Len(edits)
            /\ Malformed(edits[pos], Len(lines)))
           => ApplyEdit(lines, edits[pos]) = lines

\* C5 witness: of two edits the first taken was malformed and skipped, the
\* second was applied and changed the list
C5_Witness ==
    /\ pass_pc = "done"
    /\ skipped = <<TRUE, FALSE>>
    /\ Malformed(edits[1], Len(OrigLines))
    /\ lines # OrigLines

\* the edit the loop is about to take is not skipped: it is applied
ApplyingEdit ==
    /\ pass_pc = "loop"
    /\ pos <= Len(edits)
    /\ ~InvalidLineNumbers(lines, edits[pos])

\* every edit applied so far starts below line e
AppliedAllStartBelow(e) ==
    \A k \in 1..(pos - 1) : ~skipped[k] => edits[k].start_line > e

\* C22: in the descending pass, when an edit with the range [s, e] is
\* applied and every edit applied before it had a start_line greater than
\* e, positions 1..e of the working list are lines 1..e of the content the
\* pass started from.
C22_PrefixUntouched ==
    (ApplyingEdit /\ AppliedAllStartBelow(edits[pos].end_line)) =>
        \A i \in 1..edits[pos].end_line :
            /\ i <= Len(lines) <=> i <= Len(OrigLines)
            /\ i <= Len(lines) => lines[i] = OrigLines[i]

\* C22 witness: an edit applied further down has changed the length of the
\* list, and a replacement of lines above it is about to be applied
C22_Witness ==
    /\ ApplyingEdit
    /\ pos = 2
    /\ skipped = <<FALSE>>
    /\ edits[2].edit_type = "update_outdated"
    /\ edits[2].start_line = 1 /\ edits[2].end_line = 2
    /\ edits[1].start_line = 3
    /\ Len(lines) > Len(OrigLines)
    /\ SubSeq(lines, 1, 2) = SubSeq(OrigLines, 1, 2)

\* C23: every edit the loop applies (does not skip) has
\* start_line <= end_line <= line_count(original) + 1, original being the
\* content the pass started from; an edit that breaks this is never
\* applied, whatever its edit_type.
C23_AppliedEditsInRange ==
    \A k \in 1..Len(skipped) :
        ~skipped[k] =>
            /\ edits[k].start_line <= edits[k].end_line
            /\ edits[k].end_line <= Len(OrigLines) + 1

\* the lines an edit affects: none for an insertion, which stands for the
\* empty range before its start_line
AffectedLines(e) ==
    IF e.edit_type \in {"add_new", "enhance"} THEN {}
    ELSE e.start_line..e.end_line

\* the point of an insertion lies inside the range of a replacement
InsertsInside(e1, e2) ==
    /\ e1.edit_type \in {"add_new", "enhance"}
    /\ e2.edit_type \notin {"add_new", "enhance"}
    /\ e2.start_line < e1.start_line
    /\ e1.start_line <= e2.end_line

\* the affected ranges of two edits do not overlap
RangesApart(e1, e2) ==
    /\ AffectedLines(e1) \cap AffectedLines(e2) = {}
    /\ ~InsertsInside(e1, e2)
    /\ ~InsertsInside(e2, e1)

\* C28: for edits to one file whose affected ranges are pairwise
\* non-overlapping, the final content is the same for every order in which
\* the agent lists them, also when two edits share a start_line.
C28_OrderIndependent ==
    (/\ pass_pc = "done"
     /\ Len(agent_edits) = 2
     /\ RangesApart(agent_edits[1], agent_edits[2]))
        => pass_result =
               ApplyFileEdits(content_to_edit,
                              <<agent_edits[2], agent_edits[1]>>)

\* the characters that are whitespace and end no line of a joined text
Blanks == Whitespace \ {"\n"}

\* a line of the text ends in whitespace: a blank stands at the end of the
\* text or right before a line feed
HasTrailingWhitespace(text) ==
    \E i \in 1..Len(text) :
        /\ text[i] \in Blanks
        /\ (i = Len(text) \/ text[i + 1] = "\n")

\* C21: the content a pass of the edit loop writes back to the revision
\* state has no trailing whitespace on any line, be the line from a
\* replacement text or an original line that no edit touched.
C21_NoTrailingWhitespace ==
    pass_pc = "done" => ~HasTrailingWhitespace(pass_result)

\* C21 witness: the content had a line ending in whitespace that no edit
\* named, an applied edit brought another, and the result was written
C21_Witness ==
    /\ pass_pc = "done"
    /\ Len(agent_edits) = 1
    /\ skipped = <<FALSE>>
    /\ agent_edits[1].start_line = 3
    /\ HasTrailingWhitespace(agent_edits[1].replacement_txt)
    /\ Len(OrigLines) = 3
    /\ OrigLines[1] # RStrip(OrigLines[1])
    /\ Len(SplitLines(pass_result)) >= 4

(***************************************************************************)
(* Claims about a run of make_changes (checked under Spec).                 *)
(***************************************************************************)
\* the revision state bundle j started from
RevisedBefore(j) ==
    IF j = 1 THEN original_contents ELSE bundle_log[j - 1].revised

\* the raw edits recorded before bundle j
RawEditsBefore(j) == IF j = 1 THEN <<>> ELSE bundle_log[j - 1].raw_edits

\* the revision state the finished bundles have produced
RevisedSoFar == RevisedBefore(Len(bundle_log) + 1)

\* C1: bundles are processed one after another and edits are cumulative:
\* what bundle k shows the agent and what its edits are applied to is the
\* revision state left by bundles 1..k-1, not the content as loaded, and the
\* result is in the revision state before the next bundle starts.
C1_CumulativeEdits ==
    /\ \A j \in 1..Len(bundle_log) :
          ~bundle_log[j].failed =>
              \A path \in DOMAIN original_contents :
                  bundle_log[j].revised[path] =
                      IF path \in EditedPaths(bundle_log[j].response)
                      THEN ApplyFileEdits(RevisedBefore(j)[path],
                               EditsByFile(bundle_log[j].response, path))
                      ELSE RevisedBefore(j)[path]
    /\ pc \in {"bundle", "await", "done"} =>
          /\ revised_contents = RevisedSoFar
          /\ bundle_no = Len(bundle_log) + 1
    /\ pc = "await" =>
          \A cp \in DOMAIN prompt_docs :
              prompt_docs[cp] = Numbered(RevisedSoFar[cp])

\* C1 witness: the second bundle is shown, and edits, a file that the first
\* bundle changed, and the outcome differs from editing the loaded content
C1_Witness ==
    /\ Len(bundle_log) = 2
    /\ ~bundle_log[1].failed /\ ~bundle_log[2].failed
    /\ PathA \in EditedPaths(bundle_log[1].response)
    /\ PathA \in EditedPaths(bundle_log[2].response)
    /\ bundle_log[1].revised[PathA] # original_contents[PathA]
    /\ bundle_log[2].revised[PathA] # bundle_log[1].revised[PathA]
    /\ bundle_log[2].revised[PathA] #
           ApplyFileEdits(original_contents[PathA],
                          EditsByFile(bundle_log[2].response, PathA))
    /\ PathA \in DOMAIN prompt_docs
    /\ prompt_docs[PathA] # Numbered(original_contents[PathA])

\* C6: a failed agent call for bundle k leaves the revision state and the
\* recorded raw edits as they were before bundle k, and the loop goes on:
\* when make_changes returns, every bundle has been taken.
C6_FailedBundleSkipped ==
    /\ \A j \in 1..Len(bundle_log) :
          bundle_log[j].failed =>
              /\ bundle_log[j].revised = RevisedBefore(j)
              /\ bundle_log[j].raw_edits = RawEditsBefore(j)
    /\ pc = "done" => Len(bundle_log) = Len(doc_instructions)

\* C6 witness: the first bundle failed, the second was processed and changed
\* a file, and make_changes returned
C6_Witness ==
    /\ pc = "done"
    /\ Len(bundle_log) = 2
    /\ bundle_log[1].failed
    /\ ~bundle_log[2].failed
    /\ bundle_log[1].revised = original_contents
    /\ bundle_log[2].revised # original_contents
    /\ result.files_changed = 1

\* C8: what make_changes returns lists exactly the loaded paths whose final
\* content differs from the content as loaded, each once and with its final
\* content, and files_changed is the number of entries.
C8_ChangedDocsExact ==
    pc = "done" =>
        LET docs == result.revised_documents
        IN  /\ \A path \in DOMAIN original_contents :
                  (revised_contents[path] # original_contents[path])
                      <=> (\E i \in 1..Len(docs) : docs[i].path = path)
            /\ \A i, j \in 1..Len(docs) :
                  i # j => docs[i].path # docs[j].path
            /\ \A i \in 1..Len(docs) :
                  /\ docs[i].path \in DOMAIN revised_contents
                  /\ docs[i].revised_doc = revised_contents[docs[i].path]
            /\ result.files_changed = Len(docs)

\* C8 witness: of two loaded files one was changed and is listed; the other
\* was changed by the first bundle and restored by the second, and is not
C8_Witness ==
    /\ pc = "done"
    /\ DOMAIN original_contents = {PathA, DocsPrefixed(PathB)}
    /\ Len(bundle_log) = 2
    /\ bundle_log[1].revised[PathA] # original_contents[PathA]
    /\ revised_contents[PathA] = original_contents[PathA]
    /\ revised_contents[DocsPrefixed(PathB)] #
           original_contents[DocsPrefixed(PathB)]
    /\ result.files_changed = 1
    /\ result.revised_documents[1].path = DocsPrefixed(PathB)

\* every edit of the list is malformed for the content (an empty list too)
AllRejected(es, content) ==
    \A k \in 1..Len(es) : Malformed(es[k], Len(SplitLines(content)))

\* every bundle that got an answer had only rejected edits for the path
OnlyRejectedEdits(path) ==
    \A j \in 1..Len(bundle_log) :
        ~bundle_log[j].failed =>
            AllRejected(EditsByFile(bundle_log[j].response, path),
                        RevisedBefore(j)[path])

\* C24: when every edit a bundle has for a file is rejected as malformed, or
\* the file's edit list is empty, the file's content in the revision state
\* after the bundle is the content before it, character for character, and
\* the file is not reported as changed because of that bundle.
C24_RejectedEditsChangeNothing ==
    /\ \A j \in 1..Len(bundle_log) :
          ~bundle_log[j].failed =>
              \A path \in DOMAIN original_contents :
                  AllRejected(EditsByFile(bundle_log[j].response, path),
                              RevisedBefore(j)[path])
                      => bundle_log[j].revised[path] = RevisedBefore(j)[path]
    /\ pc = "done" =>
          \A path \in DOMAIN original_contents :
              OnlyRejectedEdits(path) =>
                  \A i \in 1..Len(result.revised_documents) :
                      result.revised_documents[i].path # path

\* the content bundle j found for the path, the empty text when there was
\* none
ContentOrEmpty(j, path) ==
    IF path \in DOMAIN RevisedBefore(j) THEN RevisedBefore(j)[path] ELSE <<>>

\* C27: a path named by a bundle or by the writer agent's edits that has no
\* file on disk does not make the run fail and counts as empty content: the
\* path is in the revision state, and the edits for it are applied to the
\* empty document.
C27_MissingFileIsEmpty ==
    /\ pc \in {"bundle", "await", "done"} =>
          \A path_str \in AllPaths(doc_instructions) :
              LoadKey(path_str) = <<>> =>
                  path_str \in DOMAIN revised_contents
    /\ \A j \in 1..Len(bundle_log) :
          ~bundle_log[j].failed =>
              \A path \in EditedPaths(bundle_log[j].response) :
                  path \notin DOMAIN disk =>
                      /\ path \in DOMAIN bundle_log[j].revised
                      /\ bundle_log[j].revised[path] =
                             ApplyFileEdits(ContentOrEmpty(j, path),
                                 EditsByFile(bundle_log[j].response, path))

(***************************************************************************)
(* Claims about re-application (checked under SpecReapply).                 *)
(***************************************************************************)
\* a replacement-type edit whose replacement has as many lines as its range
SameSizeReplacement(e) ==
    /\ e.edit_type \in {"update_outdated", "delete_redundant"}
    /\ Len(ReplLines(e)) = e.end_line - e.start_line + 1

\* the content ends in a line break
EndsInLineBreak(c) == c # <<>> /\ c[Len(c)] \in LineBreaks

JustScanned ==
    \/ uc_pc = "loop" /\ doc_i = 0
    \/ uc_pc = "returned" /\ docs_to_update = {}

\* the name holds ".md"
HasMdSuffix(name) ==
    \E i \in 1..(Len(name) - 2) :
        name[i] = "." /\ name[i + 1] = "m" /\ name[i + 2] = "d"

\* C9: get_docs_to_update returns exactly the files under doc_root whose
\* name matches the markdown-family pattern and does not start with an
\* underscore, and that are absent from the catalog or stored with a hash
\* other than the SHA-256 of their current bytes.
C9_DocsToUpdateExact ==
    JustScanned =>
        /\ docs_to_update \subseteq CatPaths
        /\ \A path \in CatPaths :
              path \in docs_to_update <=>
                  /\ path \in DOMAIN fs
                  /\ path[1] = "docs"
                  /\ HasMdSuffix(FileName(path))
                  /\ FileName(path)[1] # "_"
                  /\ \/ path \notin DOMAIN catalog
                     \/ catalog[path].hash # Sha256(fs[path])

\* C9 witness: a scan that leaves an unchanged catalogued document and the
\* underscore file out and returns a changed catalogued document
C9_Witness ==
    /\ JustScanned
    /\ DocA \in DOMAIN catalog /\ DocA \in DOMAIN fs
    /\ catalog[DocA].hash = Sha256(fs[DocA])
    /\ DocA \notin docs_to_update
    /\ DocB \in DOMAIN catalog /\ DocB \in DOMAIN fs
    /\ DocB \in docs_to_update
    /\ <<"docs", NameUnderscore>> \in DOMAIN fs
    /\ <<"docs", NameUnderscore>> \notin docs_to_update

\* C10 (as claimed): for every file content, a catalogued document whose
\* bytes differ from those update_catalog processed is returned by the next
\* get_docs_to_update, and one whose bytes are those it processed is not.
C10_ReturnedUntilProcessed ==
    JustScanned =>
        \A path \in (DOMAIN processed_bytes) \cap ScannedDocs(fs) :
            /\ processed_bytes[path] # fs[path] => path \in docs_to_update
            /\ processed_bytes[path] = fs[path] => path \notin docs_to_update

\* a file named by the path is on disk under doc_root and is eligible: its
\* name is of the markdown family and does not start with an underscore
EligibleFileFound(path) ==
    /\ path \in DOMAIN fs
    /\ path[1] = "docs"
    /\ HasMdSuffix(FileName(path))
    /\ FileName(path)[1] # "_"

TakenDocs == {all_docs_to_update[i] : i \in 1..doc_i}

\* C13: a document whose summarizer call failed is stored under its path
\* with only the path, the file stem as title and the hash of its content
\* (topics, doctype and summary unset); the loop goes on to every remaining
\* document, and the run returns with each readable document of the batch
\* stored.
C13_MinimalEntryOnFailure ==
    /\ uc_pc = "loop" =>
          \A path \in TakenDocs :
              Decodable(fs[path]) => path \in DOMAIN catalog
    /\ uc_pc \in {"loop", "returned"} =>
          \A path \in agent_failed :
              /\ path \in DOMAIN catalog
              /\ catalog[path].path = path
              /\ catalog[path].title = Stem(FileName(path))
              /\ catalog[path].hash = Sha256(Encode(ReadText(fs[path])))
              /\ catalog[path].topics = "None"
              /\ catalog[path].doctype = "None"
              /\ catalog[path].summary = "None"
    /\ (uc_pc = "returned" /\ all_docs_to_update # <<>>) =>
          /\ doc_i = Len(all_docs_to_update)
          /\ \A path \in TakenDocs :
                Decodable(fs[path]) =>
                    /\ path \in DOMAIN catalog
                    /\ catalog[path].hash = Sha256(Encode(ReadText(fs[path])))

\* C13 witness: the summarizer failed for the first of two documents, one
\* with a title line; the second was processed and the run returned
C13_Witness ==
    /\ uc_pc = "returned"
    /\ all_docs_to_update = <<DocB, DocA>>
    /\ fs[DocB] = FrontMatterDoc
    /\ agent_failed = {DocB}
    /\ catalog[DocB].title = <<"b">>
    /\ catalog[DocA].summary = "summary"

\* C14 (as claimed): when update_catalog has returned, the saved snapshot is
\* the catalog in memory, and no entry removed in the run is in the snapshot.
C14_SavedAtReturn ==
    uc_pc = "returned" =>
        /\ catalog_file = catalog
        /\ \A path \in docs_to_remove : path \notin DOMAIN catalog_file

(***************************************************************************)
(* Claims about the snapshot file (checked under SpecSnapshot).             *)
(***************************************************************************)
\* C12: a catalog loaded after it was saved has the same paths and, under
\* each path, the same title, topics, doctype, summary and hash.
C12_SaveLoadRoundTrip ==
    save_pc = "loaded" =>
        /\ load_result.ok
        /\ {load_result.docs[k][1] : k \in 1..Len(load_result.docs)}
              = {self_docs[k][1] : k \in 1..Len(self_docs)}
        /\ Len(load_result.docs) = Len(self_docs)
        /\ \A k \in 1..Len(self_docs) :
              \E n \in 1..Len(load_result.docs) :
                  /\ load_result.docs[n][1] = self_docs[k][1]
                  /\ load_result.docs[n][2].title = self_docs[k][2].title
                  /\ load_result.docs[n][2].topics = self_docs[k][2].topics
                  /\ load_result.docs[n][2].doctype = self_docs[k][2].doctype
                  /\ load_result.docs[n][2].summary = self_docs[k][2].summary
                  /\ load_result.docs[n][2].hash = self_docs[k][2].hash

\* C12 witness: a catalog of two entries, one with every field set and
\* special characters in path and strings, was saved and loaded
C12_Witness ==
    /\ save_pc = "loaded"
    /\ Len(self_docs) = 2
    /\ self_docs[2] = <<SnapPathQ, FullEntry(SnapPathQ)>>
    /\ self_docs[1][2].title = << <<"n", "u", "l", "l">> >>
    /\ flushed > BufferSize

\* C15 (as claimed): when the process stops, the snapshot file is the one
\* the save before left, or holds the whole text of the catalog being saved.
C15_SaveAtomic ==
    save_pc = "stopped" =>
        \/ snapshot = saved_before
        \/ snapshot = [exists |-> TRUE, text |-> ModelDumpJson(self_docs)]

(***************************************************************************)
(* Claims about the pipeline run (checked under SpecTask, the last under    *)
(* SpecCrash).                                                              *)
(***************************************************************************)
\* the operation was executed in this run
Executed(operation) == \E n \in 1..Len(calls) : calls[n] = operation

\* C16: the stages are reached in the order Search, Coordinate, Write, PR.
\* A stage of the first three whose output file exists when it is reached
\* does not execute its operation and has the parsed content of the file as
\* its result; one whose file does not exist executes its operation, which
\* (unless its agent call raises and ends the run) writes the file.
C16_StageCaching ==
    /\ Len(stage_log) <= 4
    /\ \A k \in 1..Len(stage_log) : stage_log[k].stage = StageOrder[k]
    /\ \A k \in 1..Len(stage_log) :
          k <= 3 =>
              IF stage_log[k].existed
              THEN /\ ~Executed(StageOperation[k])
                   /\ stage_log[k].completed
                   /\ out_files[StageFile[k]].exists
                   /\ stage_log[k].result
                          = ParseJson(out_files[StageFile[k]].text).v
              ELSE /\ Executed(StageOperation[k])
                   /\ stage_log[k].completed =>
                          /\ out_files[StageFile[k]].exists
                          /\ ParseJson(out_files[StageFile[k]].text).v
                                 = stage_log[k].result
                   /\ ~stage_log[k].completed => task_pc = "raised"

\* C16 witness: the search file was there and the other two were not; the
\* run took the search result from the file, executed the two other
\* operations and reached the PR stage
C16_Witness ==
    /\ Len(stage_log) = 4
    /\ stage_log[1].existed
    /\ stage_log[1].result = JArr(<<PathEntry(DocFileNew)>>)
    /\ ~stage_log[2].existed
    /\ ~stage_log[3].existed
    /\ calls = <<"coordinate_changes", "make_changes", "create_pr">>

\* C19 (as claimed): when create_pr raises for want of GITHUB_TOKEN, the run
\* has written no documentation file.
C19_RaisesBeforeAnyWrite ==
    (~github_token /\ pr_failed /\ task_pc \in {"pr_finally", "raised"}) =>
        written = {}

\* a stage before stage k found no output file and executed its operation,
\* which wrote a new one
UpstreamRecomputed(k) ==
    \E j \in 1..(k - 1) :
        /\ ~stage_log[j].existed
        /\ stage_log[j].completed
        /\ Executed(StageOperation[j])
        /\ stage_log[j].result # EarlierOutput[j]

\* C30: whether a stage is taken from its file depends on the existence of
\* the file alone: a stage whose file exists is skipped and has the content
\* of the file, left by the earlier run, as its result even when a stage
\* before it was recomputed in this run; the PR stage has no file to be
\* taken from and executes create_pr whenever the run reaches it.
C30_ExistenceAloneDecides ==
    /\ \A k \in 2..Len(stage_log) :
          (k <= 3 /\ stage_log[k].existed /\ UpstreamRecomputed(k)) =>
              /\ ~Executed(StageOperation[k])
              /\ stage_log[k].result = EarlierOutput[k]
              /\ out_files[StageFile[k]] = FileOf(EarlierOutput[k])
    /\ Len(stage_log) = 4 => calls[Len(calls)] = "create_pr"
    /\ task_pc \in {"pr_write", "pr_publish", "pr_finally", "done"} =>
          Executed("create_pr")

\* C30 witness: the search file was missing and search_documents wrote a new
\* one; the instructions and the changes were still taken from the files of
\* the earlier run, and create_pr was executed on them
C30_Witness ==
    /\ Len(stage_log) = 4
    /\ ~stage_log[1].existed
    /\ stage_log[1].result = JArr(<<PathEntry(DocFileA)>>)
    /\ stage_log[2].existed /\ stage_log[2].result = EarlierOutput[2]
    /\ stage_log[3].existed /\ stage_log[3].result = EarlierOutput[3]
    /\ calls = <<"search_documents", "create_pr">>
    /\ task_pc = "done"

\* C29: whenever the output file of the Search, Coordinate or Write stage
\* exists (and no operation is in the middle of writing it), it holds the
\* complete JSON output of a run of the stage that ran to completion; a stop
\* inside a stage leaves no output file that makes a later run skip the
\* stage and load partial or empty content.
C29_OutputFilesComplete ==
    /\ \A k \in 1..3 :
          (task_pc # "writing" /\ out_files[StageFile[k]].exists) =>
              \E output \in StageOutputs[k] :
                  out_files[StageFile[k]].text = JsonDump(output)
    /\ \A k \in 1..Len(stage_log) :
          stage_log[k].existed => stage_log[k].completed

(***************************************************************************)
(* Claims about parse_doc_refs (checked under SpecRefs).                    *)
(***************************************************************************)
\* C17 (as claimed): the referenced_docs of the returned Document hold each
\* path at most once and never the path of the Document itself.
C17_RefsDistinctNotSelf ==
    ref_pc = "done" =>
        /\ \A i, j \in 1..Len(parsed.referenced_docs) :
              i # j => parsed.referenced_docs[i].path
                          # parsed.referenced_docs[j].path
        /\ \A i \in 1..Len(parsed.referenced_docs) :
              parsed.referenced_docs[i].path # parsed.path

RECURSIVE DepthOf(_)
\* the depth of the deepest Document below doc
DepthOf(doc) ==
    IF doc.referenced_docs = <<>> THEN 0
    ELSE LET depths == {DepthOf(doc.referenced_docs[i]) :
                            i \in 1..Len(doc.referenced_docs)}
         IN  1 + CHOOSE d \in depths : \A e \in depths : e <= d

\* the Documents of the result at the depth limit have a body and no
\* reference, and none lies deeper
LeavesAtLimit ==
    ref_pc = "done" =>
        /\ DepthOf(parsed) <= DepthLimit
        /\ \A i \in 1..Len(parsed.referenced_docs) :
              /\ parsed.referenced_docs[i].referenced_docs = <<>>
              /\ FileName(parsed.referenced_docs[i].path) \in DOMAIN ref_files
              /\ \/ parsed.referenced_docs[i].doc_body = PlaceholderBody
                 \/ parsed.referenced_docs[i].doc_body
                        = FileBody(ref_files[
                              FileName(parsed.referenced_docs[i].path)])

\* C18: parse_doc_refs returns for every import graph, cyclic ones included;
\* no Document of the result lies deeper than the depth limit, and those at
\* the limit carry a body and no references.
C18_TerminatesWithinDepth == <>(ref_pc = "done") /\ []LeavesAtLimit

\* C18 witness: two documents import each other and the call returned, the
\* one referenced from the other as a leaf
C18_Witness ==
    /\ ref_pc = "done"
    /\ file_path = <<"docs", NameAmd>>
    /\ ref_files[NameAmd] = <<NameBmdx>>
    /\ ref_files[NameBmdx] = <<NameAmd>>
    /\ Len(parsed.referenced_docs) = 1
    /\ parsed.referenced_docs[1].path = <<"docs", NameBmdx>>
    /\ parsed.referenced_docs[1].doc_body = FileBody(<<NameAmd>>)

(***************************************************************************)
(* Claims about create_diff (checked under SpecDiff).                       *)
(***************************************************************************)
\* C20: create_diff returns the empty string when the two texts are the
\* same, and then the combined diff stays as it was; it returns a diff that
\* is not empty when they differ.
C20_EmptyDiffIffIdentical ==
    [][(diff_pc = "ready" /\ diff_pc' = "done") =>
          /\ old_content = new_content =>
                (diff' = <<>> /\ all_diffs' = all_diffs)
          /\ old_content # new_content =>
                (diff' # <<>> /\ all_diffs' = all_diffs \o diff'
                 /\ all_diffs' # all_diffs)]_vars

\* C20 witness: the diff of a text with itself, made after other diffs, is
\* empty
C20_Witness ==
    /\ diff_pc = "done"
    /\ old_content = <<"a", "\n", "b">>
    /\ new_content = old_content
    /\ diff = <<>>
    /\ all_diffs = <<"@">>

(***************************************************************************)
(* Claims about the saves of a long batch (checked under SpecBatch) and     *)
(* about what update_catalog reports (checked under SpecCatalog).           *)
(***************************************************************************)
\* the entries of the catalog in memory that the saved snapshot does not hold
UnsavedEntries ==
    {path \in DOMAIN catalog :
        \/ path \notin DOMAIN catalog_file
        \/ catalog_file[path] # catalog[path]}

\* C25: during the loop of update_catalog the catalog is saved after every
\* SaveEvery (10) processed documents: at every point of the loop, whatever
\* the mix of documents that succeed and fail, at most 9 generated entries
\* are in memory only.
C25_AtMostNineUnsaved ==
    uc_pc = "loop" => Cardinality(UnsavedEntries) <= SaveEvery - 1

\* C26: the removed_docs value update_catalog returns is the number of
\* entries it deleted from the catalog in that run, whether or not the call
\* that removes them from the vector database succeeds.
C26_RemovedDocsCounted ==
    uc_pc = "returned" => removed_count = Cardinality(docs_to_remove)

====
